---- MODULE Spec2Model ----
(***************************************************************************)
(* Model of get_congress_members.py (Leveneer/congress-member-data).       *)
(*                                                                         *)
(* Five specifications share the variables below:                          *)
(*   SpecCalendar   calls of the pure calendar functions on bounded inputs *)
(*   SpecNormalizer calls of get_current_chamber on bounded member records *)
(*   Spec           the fetch loop of fetch_congress_members, one upstream *)
(*                  request per step, then filtering and statistics        *)
(*   SpecExport     calls of write_to_csv on a bounded file system         *)
(*   SpecMain       runs of main: arguments, credentials, fetch, exit      *)
(*                                                                         *)
(* Python values are represented as follows.  An optional argument is a    *)
(* set: {} is None and {v} is the value v.  A str is a TLA+ string, an int *)
(* an integer, a tuple a TLA+ tuple, a date a record [year, month, day].   *)
(***************************************************************************)
EXTENDS Integers, Sequences, FiniteSets, TLC

VARIABLES
    op,          \* name of the pure function last called ("none" before any call)
    arg,         \* its argument(s)
    result,      \* its return value
    pc,          \* position of the fetch: "idle", "start", "loop", "done", "raised"
    entry,       \* the function the caller entered the fetch by
    congress_arg, \* argument congress
    chamber_arg, \* argument chamber (None or Some(str))
    state_arg,   \* argument state (None or Some(characters))
    state_code,  \* the state handed to fetch_congress_members
    debug_arg,   \* argument debug
    offset,      \* local offset of the fetch loop
    all_members, \* local all_members of the fetch loop, as accumulated
    requests,    \* the requests issued to the upstream, in order
    responses,   \* the responses the upstream gave, in order
    outcome,     \* what the fetch returned or raised
    dirs,        \* the directories that exist under the working directory
    files,       \* the files that exist: records [path, rows]
    stdout,      \* the lines printed to standard output (DEBUG lines left out)
    stderr,      \* the lines printed to standard error
    main_pc,     \* position of main: "idle", "start", "fetch", "exited"
    args,        \* the command line of main
    environ,     \* os.environ['CONGRESS_API_KEY'] (None or Some(str))
    dotenv,      \* the .env files: of the working directory, and the one read
    today_year,  \* date.today().year
    api_key,     \* the credential main resolved (None or Some(str))
    resolved,    \* whether main has called get_api_key
    exit_status  \* exit status of the process (None while it runs)

callVars == <<op, arg, result>>
fetchVars == <<pc, entry, congress_arg, chamber_arg, state_arg, state_code, debug_arg,
               offset,
               all_members,
               requests, responses, outcome>>
ioVars == <<dirs, files, stdout, stderr>>
mainVars == <<main_pc, args, environ, dotenv, today_year, api_key, resolved, exit_status>>
vars == <<callVars, fetchVars, ioVars, mainVars>>

None == {}
Some(v) == {v}

-----------------------------------------------------------------------------
(* Bounds of the inputs *)

MaxYear == 2027          \* last calendar year of the dates and years drawn
MaxCongress == 120       \* last session number drawn
MaxOrdinal == 230        \* last integer passed to format_ordinal
MaxTerms == 2            \* longest list of terms of a drawn member record
MaxRequests == 3         \* most requests a modelled fetch issues
MaxRecords == 2          \* most records the upstream serves in short pages
MaxFullPages == 2        \* most full pages (of LIMIT records) the upstream serves

(* Program constants *)
base_year == 1789
base_congress == 1
CURRENT_CONGRESS == 118
LIMIT == 250             \* params['limit'], the page size and the offset step

-----------------------------------------------------------------------------
(* datetime.date: the valid calendar dates (proleptic Gregorian) *)

IsLeap(y) == (y % 4 = 0) /\ ((y % 100 # 0) \/ (y % 400 = 0))

DaysInMonth(y, m) ==
    IF m = 2 THEN (IF IsLeap(y) THEN 29 ELSE 28)
    ELSE IF m \in {4, 6, 9, 11} THEN 30 ELSE 31

date(y, m, d) == [year |-> y, month |-> m, day |-> d]

Years == base_year..MaxYear

Dates ==
    { dt \in { date(y, m, d) : y \in Years, m \in 1..12, d \in 1..31 } :
        dt.day <= DaysInMonth(dt.year, dt.month) }

-----------------------------------------------------------------------------
(* str(n) for an int, as an f-string renders it *)

Digit(d) ==
    CASE d = 0 -> "0" [] d = 1 -> "1" [] d = 2 -> "2" [] d = 3 -> "3"
      [] d = 4 -> "4" [] d = 5 -> "5" [] d = 6 -> "6" [] d = 7 -> "7"
      [] d = 8 -> "8" [] d = 9 -> "9"

RECURSIVE StrNat(_)
StrNat(n) == IF n < 10 THEN Digit(n) ELSE StrNat(n \div 10) \o Digit(n % 10)

Str(n) == IF n < 0 THEN "-" \o StrNat(0 - n) ELSE StrNat(n)

-----------------------------------------------------------------------------
(* Calendar model *)

\* Variant of calculate_congress_number whose January cutoff also takes day 3
calculate_congress_number_day3(date_obj) ==
    LET year0 == date_obj.year
        year1 == IF year0 % 2 = 0 THEN year0 - 1 ELSE year0
        year2 == IF year1 % 2 = 1 /\ date_obj.month = 1 /\ date_obj.day <= 3
                 THEN year1 - 2 ELSE year1
    IN  base_congress + ((year2 - base_year) \div 2)

\* calculate_congress_number, with both adjustments applied to the running
\* value of year: the second test reads year after the first has changed it
calculate_congress_number(date_obj) ==
    LET year0 == date_obj.year
        year1 == IF year0 % 2 = 0 THEN year0 - 1 ELSE year0
        year2 == IF year1 % 2 = 1 /\ date_obj.month = 1 /\ date_obj.day < 3
                 THEN year1 - 2 ELSE year1
    IN  base_congress + ((year2 - base_year) \div 2)

\* Variant of get_congress_years whose start year counts the session itself
get_congress_years_from_zero(congress) ==
    LET start_year == 1789 + (congress * 2)
        end_year == start_year + 2
    IN  <<start_year, end_year>>

get_congress_years(congress) ==
    LET start_year == 1789 + ((congress - 1) * 2)
        end_year == start_year + 2
    IN  <<start_year, end_year>>

\* Variant of get_congress_transition_month that gives session 73 the March
\* start in the context of 1933
get_congress_transition_month_march73(congress, year) ==
    IF year = Some(1933) /\ congress = 72 THEN <<"March", 3>>
    ELSE IF year = Some(1933) /\ congress = 73 THEN <<"March", 3>>
    ELSE IF congress < 73 THEN <<"March", 3>>
    ELSE <<"January", 1>>

get_congress_transition_month(congress, year) ==
    IF year = Some(1933) /\ congress = 72 THEN <<"March", 3>>
    ELSE IF year = Some(1933) /\ congress = 73 THEN <<"January", 1>>
    ELSE IF congress < 73 THEN <<"March", 3>>
    ELSE <<"January", 1>>

\* Variant of format_ordinal without the rule for 10..20
format_ordinal_no_teens(n) ==
    LET suffix == CASE n % 10 = 1 -> "st"
                    [] n % 10 = 2 -> "nd"
                    [] n % 10 = 3 -> "rd"
                    [] OTHER -> "th"
    IN  Str(n) \o suffix

format_ordinal(n) ==
    LET suffix == IF 10 <= n % 100 /\ n % 100 <= 20 THEN "th"
                  ELSE CASE n % 10 = 1 -> "st"
                         [] n % 10 = 2 -> "nd"
                         [] n % 10 = 3 -> "rd"
                         [] OTHER -> "th"
    IN  Str(n) \o suffix

\* Variant of format_congress_info that probes the odd year on January 3 and
\* the even year on January 1
format_congress_info_probe(year) ==
    IF year % 2 = 1
    THEN LET prev_congress == calculate_congress_number(date(year, 1, 3))
             curr_congress == prev_congress + 1
             prev_years == get_congress_years(prev_congress)
             curr_years == get_congress_years(curr_congress)
             prev_transition_month ==
                 get_congress_transition_month(prev_congress, Some(year))[1]
             curr_transition_month ==
                 get_congress_transition_month(curr_congress, Some(year))[1]
         IN  format_ordinal(prev_congress) \o " Congress (" \o Str(prev_years[1])
               \o "-" \o prev_transition_month \o " " \o Str(year) \o ") & "
               \o format_ordinal(curr_congress) \o " Congress ("
               \o curr_transition_month \o " " \o Str(year) \o "-"
               \o Str(curr_years[2]) \o ")"
    ELSE LET congress == calculate_congress_number(date(year, 1, 1))
             years == get_congress_years(congress)
         IN  format_ordinal(congress) \o " Congress (" \o Str(years[1]) \o "-"
               \o Str(years[2]) \o ")"

format_congress_info(year) ==
    IF year % 2 = 1
    THEN LET prev_congress == calculate_congress_number(date(year, 1, 1))
             curr_congress == prev_congress + 1
             prev_years == get_congress_years(prev_congress)
             curr_years == get_congress_years(curr_congress)
             prev_transition_month ==
                 get_congress_transition_month(prev_congress, Some(year))[1]
             curr_transition_month ==
                 get_congress_transition_month(curr_congress, Some(year))[1]
         IN  format_ordinal(prev_congress) \o " Congress (" \o Str(prev_years[1])
               \o "-" \o prev_transition_month \o " " \o Str(year) \o ") & "
               \o format_ordinal(curr_congress) \o " Congress ("
               \o curr_transition_month \o " " \o Str(year) \o "-"
               \o Str(curr_years[2]) \o ")"
    ELSE LET congress == calculate_congress_number(date(year, 7, 1))
             years == get_congress_years(congress)
         IN  format_ordinal(congress) \o " Congress (" \o Str(years[1]) \o "-"
               \o Str(years[2]) \o ")"

-----------------------------------------------------------------------------
(* JSON values of the upstream payload.                                      *)
(*                                                                           *)
(* A scalar is a record [t, s, n]: t is its type ("absent" for a key that    *)
(* the dict does not hold, "null" for None, "obj" for a nested object where  *)
(* a scalar is expected), s the text of a str and the str() of a nested      *)
(* object, n the value of an int or (0/1) of a bool.  A dict is a record over the keys the *)
(* program reads, each holding a scalar or "absent": it is empty, and so     *)
(* falsy, when every key is absent.                                          *)

Absent == [t |-> "absent", s |-> "", n |-> 0]
JNull == [t |-> "null", s |-> "", n |-> 0]
JStr(x) == [t |-> "str", s |-> x, n |-> 0]
JInt(k) == [t |-> "int", s |-> "", n |-> k]
JBool(b) == [t |-> "bool", s |-> "", n |-> IF b THEN 1 ELSE 0]
\* A nested, non-empty object, with its str()
JObjOf(text) == [t |-> "obj", s |-> text, n |-> 0]
JObj == JObjOf("{'code': 'NY'}")

\* dict.get(key, default) on the value held under the key
Get(value, default) == IF value.t = "absent" THEN default ELSE value

\* bool(value) of a scalar
Truthy(value) ==
    CASE value.t = "absent" -> FALSE
      [] value.t = "null" -> FALSE
      [] value.t = "str" -> value.s # ""
      [] value.t = "int" -> value.n # 0
      [] value.t = "bool" -> value.n # 0
      [] OTHER -> TRUE

\* A term: one entry of a member's terms
Term(chamber, congress, startYear, endYear, district) ==
    [chamber |-> chamber, congress |-> congress, startYear |-> startYear,
     endYear |-> endYear, district |-> district]

EmptyTerm == Term(Absent, Absent, Absent, Absent, Absent)

\* The value under 'item' (and the value under 'terms' when it is a list):
\* t is "absent", "null", "dict" (v holds the one term) or "list" (v holds
\* the terms)
NoItem == [t |-> "absent", v |-> <<>>]
NullItem == [t |-> "null", v |-> <<>>]
DictItem(term) == [t |-> "dict", v |-> <<term>>]
ListItem(terms) == [t |-> "list", v |-> terms]

\* The value under 'terms': t is "absent", "null", "dict" (item holds the
\* value under 'item') or "list" (item holds the list itself)
NoTerms == [t |-> "absent", item |-> NoItem]
NullTerms == [t |-> "null", item |-> NoItem]
TermsDict(item) == [t |-> "dict", item |-> item]
TermsList(terms) == [t |-> "list", item |-> ListItem(terms)]

Member(bioguideId, state, currentMember, chamber, terms) ==
    [bioguideId |-> bioguideId, state |-> state, currentMember |-> currentMember,
     chamber |-> chamber, terms |-> terms]

\* The outcome of a call: the value returned, or the exception raised
Return(v) == [raised |-> "", value |-> v]
Raise(exc) == [raised |-> exc, value |-> JNull]

\* An exception with its message, str(e)
RaiseWith(exc, message) == [raised |-> exc, value |-> JStr(message)]

-----------------------------------------------------------------------------
(* Response normalizer *)

\* get_current_chamber: member.get('terms', {}).get('item', []), then the
\* chamber of terms[-1] when terms is truthy.  A 'terms' that is no dict has
\* no get (AttributeError); an 'item' that is a non-empty dict has no key -1
\* (KeyError).
get_current_chamber(member) ==
    LET terms0 == member.terms
    IN  IF terms0.t = "absent" THEN Return(JStr(""))
        ELSE IF terms0.t # "dict"
        THEN RaiseWith("AttributeError",
                       "'" \o (IF terms0.t = "null" THEN "NoneType" ELSE "list")
                         \o "' object has no attribute 'get'")
        ELSE LET terms == terms0.item
             IN  IF terms.t \in {"absent", "null"} THEN Return(JStr(""))
                 ELSE IF terms.t = "dict"
                 THEN IF terms.v[1] = EmptyTerm THEN Return(JStr(""))
                      ELSE RaiseWith("KeyError", "-1")
                 ELSE IF terms.v = <<>> THEN Return(JStr(""))
                 ELSE LET chamber == Get(terms.v[Len(terms.v)].chamber, JStr(""))
                      IN  IF chamber = JStr("House of Representatives")
                          THEN Return(JStr("House"))
                          ELSE Return(chamber)

-----------------------------------------------------------------------------
(* str methods on the state code.  A state code is a sequence of one-character *)
(* strings, so that strip and upper act on its characters.                     *)

STATE_NAMES ==
    ("AL" :> "Alabama") @@ ("AK" :> "Alaska") @@ ("AZ" :> "Arizona")
      @@ ("AR" :> "Arkansas") @@ ("CA" :> "California") @@ ("CO" :> "Colorado")
      @@ ("CT" :> "Connecticut") @@ ("DE" :> "Delaware") @@ ("FL" :> "Florida")
      @@ ("GA" :> "Georgia") @@ ("HI" :> "Hawaii") @@ ("ID" :> "Idaho")
      @@ ("IL" :> "Illinois") @@ ("IN" :> "Indiana") @@ ("IA" :> "Iowa")
      @@ ("KS" :> "Kansas") @@ ("KY" :> "Kentucky") @@ ("LA" :> "Louisiana")
      @@ ("ME" :> "Maine") @@ ("MD" :> "Maryland") @@ ("MA" :> "Massachusetts")
      @@ ("MI" :> "Michigan") @@ ("MN" :> "Minnesota") @@ ("MS" :> "Mississippi")
      @@ ("MO" :> "Missouri") @@ ("MT" :> "Montana") @@ ("NE" :> "Nebraska")
      @@ ("NV" :> "Nevada") @@ ("NH" :> "New Hampshire") @@ ("NJ" :> "New Jersey")
      @@ ("NM" :> "New Mexico") @@ ("NY" :> "New York") @@ ("NC" :> "North Carolina")
      @@ ("ND" :> "North Dakota") @@ ("OH" :> "Ohio") @@ ("OK" :> "Oklahoma")
      @@ ("OR" :> "Oregon") @@ ("PA" :> "Pennsylvania") @@ ("RI" :> "Rhode Island")
      @@ ("SC" :> "South Carolina") @@ ("SD" :> "South Dakota") @@ ("TN" :> "Tennessee")
      @@ ("TX" :> "Texas") @@ ("UT" :> "Utah") @@ ("VT" :> "Vermont")
      @@ ("VA" :> "Virginia") @@ ("WA" :> "Washington") @@ ("WV" :> "West Virginia")
      @@ ("WI" :> "Wisconsin") @@ ("WY" :> "Wyoming") @@ ("DC" :> "District of Columbia")

\* The characters of the model are those a string of the module can hold: of
\* the Basic Multilingual Plane, the code points below U+0100 and those whose
\* low byte is 0x80 or more, the line breaks and the grave accent left out.

\* The characters a string can hold whose upper case holds a character no
\* string can hold
UpperOutside ==
    {"ÿ", "ƀ", "ƚ", "ƞ", "ǰ", "ʉ", "ʌ", "ΐ", "ΰ", "ϳ", "ր", "ց", "ւ", "փ",
     "ք", "օ", "ֆ", "և", "ᲀ", "ᲁ", "ᲂ", "ᲃ", "ᲄ", "ᲅ", "ᲆ", "ᲇ", "ᲈ", "ẖ",
     "ẗ", "ẘ", "ẙ", "ẛ", "ᾀ", "ᾁ", "ᾂ", "ᾃ", "ᾄ", "ᾅ", "ᾆ", "ᾇ", "ᾈ", "ᾉ",
     "ᾊ", "ᾋ", "ᾌ", "ᾍ", "ᾎ", "ᾏ", "ᾐ", "ᾑ", "ᾒ", "ᾓ", "ᾔ", "ᾕ", "ᾖ", "ᾗ",
     "ᾘ", "ᾙ", "ᾚ", "ᾛ", "ᾜ", "ᾝ", "ᾞ", "ᾟ", "ᾠ", "ᾡ", "ᾢ", "ᾣ", "ᾤ", "ᾥ",
     "ᾦ", "ᾧ", "ᾨ", "ᾩ", "ᾪ", "ᾫ", "ᾬ", "ᾭ", "ᾮ", "ᾯ", "ᾶ", "ᾷ", "ῆ", "ῇ",
     "ῒ", "ΐ", "ῖ", "ῗ", "ῢ", "ΰ", "ῤ", "ῦ", "ῧ", "ῶ", "ῷ"}

\* str.upper of a character: the characters it gives, one as a rule, more for
\* some (two for the sharp s); no value for a character of UpperOutside
upper_char(c) ==
    CASE c = "a" -> <<"A">> [] c = "b" -> <<"B">> [] c = "c" -> <<"C">>
      [] c = "d" -> <<"D">> [] c = "e" -> <<"E">> [] c = "f" -> <<"F">>
      [] c = "g" -> <<"G">> [] c = "h" -> <<"H">> [] c = "i" -> <<"I">>
      [] c = "j" -> <<"J">> [] c = "k" -> <<"K">> [] c = "l" -> <<"L">>
      [] c = "m" -> <<"M">> [] c = "n" -> <<"N">> [] c = "o" -> <<"O">>
      [] c = "p" -> <<"P">> [] c = "q" -> <<"Q">> [] c = "r" -> <<"R">>
      [] c = "s" -> <<"S">> [] c = "t" -> <<"T">> [] c = "u" -> <<"U">>
      [] c = "v" -> <<"V">> [] c = "w" -> <<"W">> [] c = "x" -> <<"X">>
      [] c = "y" -> <<"Y">> [] c = "z" -> <<"Z">> [] c = "µ" -> <<"Μ">>
      [] c = "ß" -> <<"S", "S">> [] c = "à" -> <<"À">> [] c = "á" -> <<"Á">>
      [] c = "â" -> <<"Â">> [] c = "ã" -> <<"Ã">> [] c = "ä" -> <<"Ä">>
      [] c = "å" -> <<"Å">> [] c = "æ" -> <<"Æ">> [] c = "ç" -> <<"Ç">>
      [] c = "è" -> <<"È">> [] c = "é" -> <<"É">> [] c = "ê" -> <<"Ê">>
      [] c = "ë" -> <<"Ë">> [] c = "ì" -> <<"Ì">> [] c = "í" -> <<"Í">>
      [] c = "î" -> <<"Î">> [] c = "ï" -> <<"Ï">> [] c = "ð" -> <<"Ð">>
      [] c = "ñ" -> <<"Ñ">> [] c = "ò" -> <<"Ò">> [] c = "ó" -> <<"Ó">>
      [] c = "ô" -> <<"Ô">> [] c = "õ" -> <<"Õ">> [] c = "ö" -> <<"Ö">>
      [] c = "ø" -> <<"Ø">> [] c = "ù" -> <<"Ù">> [] c = "ú" -> <<"Ú">>
      [] c = "û" -> <<"Û">> [] c = "ü" -> <<"Ü">> [] c = "ý" -> <<"Ý">>
      [] c = "þ" -> <<"Þ">> [] c = "ƃ" -> <<"Ƃ">> [] c = "ƅ" -> <<"Ƅ">>
      [] c = "ƈ" -> <<"Ƈ">> [] c = "ƌ" -> <<"Ƌ">> [] c = "ƒ" -> <<"Ƒ">>
      [] c = "ƕ" -> <<"Ƕ">> [] c = "ƙ" -> <<"Ƙ">> [] c = "ơ" -> <<"Ơ">>
      [] c = "ƣ" -> <<"Ƣ">> [] c = "ƥ" -> <<"Ƥ">> [] c = "ƨ" -> <<"Ƨ">>
      [] c = "ƭ" -> <<"Ƭ">> [] c = "ư" -> <<"Ư">> [] c = "ƴ" -> <<"Ƴ">>
      [] c = "ƶ" -> <<"Ƶ">> [] c = "ƹ" -> <<"Ƹ">> [] c = "ƽ" -> <<"Ƽ">>
      [] c = "ƿ" -> <<"Ƿ">> [] c = "ǅ" -> <<"Ǆ">> [] c = "ǆ" -> <<"Ǆ">>
      [] c = "ǈ" -> <<"Ǉ">> [] c = "ǉ" -> <<"Ǉ">> [] c = "ǋ" -> <<"Ǌ">>
      [] c = "ǌ" -> <<"Ǌ">> [] c = "ǎ" -> <<"Ǎ">> [] c = "ǐ" -> <<"Ǐ">>
      [] c = "ǒ" -> <<"Ǒ">> [] c = "ǔ" -> <<"Ǔ">> [] c = "ǖ" -> <<"Ǖ">>
      [] c = "ǘ" -> <<"Ǘ">> [] c = "ǚ" -> <<"Ǚ">> [] c = "ǜ" -> <<"Ǜ">>
      [] c = "ǝ" -> <<"Ǝ">> [] c = "ǟ" -> <<"Ǟ">> [] c = "ǡ" -> <<"Ǡ">>
      [] c = "ǣ" -> <<"Ǣ">> [] c = "ǥ" -> <<"Ǥ">> [] c = "ǧ" -> <<"Ǧ">>
      [] c = "ǩ" -> <<"Ǩ">> [] c = "ǫ" -> <<"Ǫ">> [] c = "ǭ" -> <<"Ǭ">>
      [] c = "ǯ" -> <<"Ǯ">> [] c = "ǲ" -> <<"Ǳ">> [] c = "ǳ" -> <<"Ǳ">>
      [] c = "ǵ" -> <<"Ǵ">> [] c = "ǹ" -> <<"Ǹ">> [] c = "ǻ" -> <<"Ǻ">>
      [] c = "ǽ" -> <<"Ǽ">> [] c = "ǿ" -> <<"Ǿ">> [] c = "ʀ" -> <<"Ʀ">>
      [] c = "ʂ" -> <<"Ʂ">> [] c = "ʃ" -> <<"Ʃ">> [] c = "ʇ" -> <<"Ʇ">>
      [] c = "ʈ" -> <<"Ʈ">> [] c = "ʊ" -> <<"Ʊ">> [] c = "ʋ" -> <<"Ʋ">>
      [] c = "ʒ" -> <<"Ʒ">> [] c = "ʝ" -> <<"Ʝ">> [] c = "ʞ" -> <<"Ʞ">>
      [] c = "ά" -> <<"Ά">> [] c = "έ" -> <<"Έ">> [] c = "ή" -> <<"Ή">>
      [] c = "ί" -> <<"Ί">> [] c = "α" -> <<"Α">> [] c = "β" -> <<"Β">>
      [] c = "γ" -> <<"Γ">> [] c = "δ" -> <<"Δ">> [] c = "ε" -> <<"Ε">>
      [] c = "ζ" -> <<"Ζ">> [] c = "η" -> <<"Η">> [] c = "θ" -> <<"Θ">>
      [] c = "ι" -> <<"Ι">> [] c = "κ" -> <<"Κ">> [] c = "λ" -> <<"Λ">>
      [] c = "μ" -> <<"Μ">> [] c = "ν" -> <<"Ν">> [] c = "ξ" -> <<"Ξ">>
      [] c = "ο" -> <<"Ο">> [] c = "π" -> <<"Π">> [] c = "ρ" -> <<"Ρ">>
      [] c = "ς" -> <<"Σ">> [] c = "σ" -> <<"Σ">> [] c = "τ" -> <<"Τ">>
      [] c = "υ" -> <<"Υ">> [] c = "φ" -> <<"Φ">> [] c = "χ" -> <<"Χ">>
      [] c = "ψ" -> <<"Ψ">> [] c = "ω" -> <<"Ω">> [] c = "ϊ" -> <<"Ϊ">>
      [] c = "ϋ" -> <<"Ϋ">> [] c = "ό" -> <<"Ό">> [] c = "ύ" -> <<"Ύ">>
      [] c = "ώ" -> <<"Ώ">> [] c = "ϐ" -> <<"Β">> [] c = "ϑ" -> <<"Θ">>
      [] c = "ϕ" -> <<"Φ">> [] c = "ϖ" -> <<"Π">> [] c = "ϗ" -> <<"Ϗ">>
      [] c = "ϙ" -> <<"Ϙ">> [] c = "ϛ" -> <<"Ϛ">> [] c = "ϝ" -> <<"Ϝ">>
      [] c = "ϟ" -> <<"Ϟ">> [] c = "ϡ" -> <<"Ϡ">> [] c = "ϣ" -> <<"Ϣ">>
      [] c = "ϥ" -> <<"Ϥ">> [] c = "ϧ" -> <<"Ϧ">> [] c = "ϩ" -> <<"Ϩ">>
      [] c = "ϫ" -> <<"Ϫ">> [] c = "ϭ" -> <<"Ϭ">> [] c = "ϯ" -> <<"Ϯ">>
      [] c = "ϰ" -> <<"Κ">> [] c = "ϱ" -> <<"Ρ">> [] c = "ϲ" -> <<"Ϲ">>
      [] c = "ϵ" -> <<"Ε">> [] c = "ϸ" -> <<"Ϸ">> [] c = "ϻ" -> <<"Ϻ">>
      [] c = "ҁ" -> <<"Ҁ">> [] c = "ҋ" -> <<"Ҋ">> [] c = "ҍ" -> <<"Ҍ">>
      [] c = "ҏ" -> <<"Ҏ">> [] c = "ґ" -> <<"Ґ">> [] c = "ғ" -> <<"Ғ">>
      [] c = "ҕ" -> <<"Ҕ">> [] c = "җ" -> <<"Җ">> [] c = "ҙ" -> <<"Ҙ">>
      [] c = "қ" -> <<"Қ">> [] c = "ҝ" -> <<"Ҝ">> [] c = "ҟ" -> <<"Ҟ">>
      [] c = "ҡ" -> <<"Ҡ">> [] c = "ң" -> <<"Ң">> [] c = "ҥ" -> <<"Ҥ">>
      [] c = "ҧ" -> <<"Ҧ">> [] c = "ҩ" -> <<"Ҩ">> [] c = "ҫ" -> <<"Ҫ">>
      [] c = "ҭ" -> <<"Ҭ">> [] c = "ү" -> <<"Ү">> [] c = "ұ" -> <<"Ұ">>
      [] c = "ҳ" -> <<"Ҳ">> [] c = "ҵ" -> <<"Ҵ">> [] c = "ҷ" -> <<"Ҷ">>
      [] c = "ҹ" -> <<"Ҹ">> [] c = "һ" -> <<"Һ">> [] c = "ҽ" -> <<"Ҽ">>
      [] c = "ҿ" -> <<"Ҿ">> [] c = "ӂ" -> <<"Ӂ">> [] c = "ӄ" -> <<"Ӄ">>
      [] c = "ӆ" -> <<"Ӆ">> [] c = "ӈ" -> <<"Ӈ">> [] c = "ӊ" -> <<"Ӊ">>
      [] c = "ӌ" -> <<"Ӌ">> [] c = "ӎ" -> <<"Ӎ">> [] c = "ӏ" -> <<"Ӏ">>
      [] c = "ӑ" -> <<"Ӑ">> [] c = "ӓ" -> <<"Ӓ">> [] c = "ӕ" -> <<"Ӕ">>
      [] c = "ӗ" -> <<"Ӗ">> [] c = "ә" -> <<"Ә">> [] c = "ӛ" -> <<"Ӛ">>
      [] c = "ӝ" -> <<"Ӝ">> [] c = "ӟ" -> <<"Ӟ">> [] c = "ӡ" -> <<"Ӡ">>
      [] c = "ӣ" -> <<"Ӣ">> [] c = "ӥ" -> <<"Ӥ">> [] c = "ӧ" -> <<"Ӧ">>
      [] c = "ө" -> <<"Ө">> [] c = "ӫ" -> <<"Ӫ">> [] c = "ӭ" -> <<"Ӭ">>
      [] c = "ӯ" -> <<"Ӯ">> [] c = "ӱ" -> <<"Ӱ">> [] c = "ӳ" -> <<"Ӳ">>
      [] c = "ӵ" -> <<"Ӵ">> [] c = "ӷ" -> <<"Ӷ">> [] c = "ӹ" -> <<"Ӹ">>
      [] c = "ӻ" -> <<"Ӻ">> [] c = "ӽ" -> <<"Ӽ">> [] c = "ӿ" -> <<"Ӿ">>
      [] c = "ა" -> <<"Ა">> [] c = "ბ" -> <<"Ბ">> [] c = "გ" -> <<"Გ">>
      [] c = "დ" -> <<"Დ">> [] c = "ე" -> <<"Ე">> [] c = "ვ" -> <<"Ვ">>
      [] c = "ზ" -> <<"Ზ">> [] c = "თ" -> <<"Თ">> [] c = "ი" -> <<"Ი">>
      [] c = "კ" -> <<"Კ">> [] c = "ლ" -> <<"Ლ">> [] c = "მ" -> <<"Მ">>
      [] c = "ნ" -> <<"Ნ">> [] c = "ო" -> <<"Ო">> [] c = "პ" -> <<"Პ">>
      [] c = "ჟ" -> <<"Ჟ">> [] c = "რ" -> <<"Რ">> [] c = "ს" -> <<"Ს">>
      [] c = "ტ" -> <<"Ტ">> [] c = "უ" -> <<"Უ">> [] c = "ფ" -> <<"Ფ">>
      [] c = "ქ" -> <<"Ქ">> [] c = "ღ" -> <<"Ღ">> [] c = "ყ" -> <<"Ყ">>
      [] c = "შ" -> <<"Შ">> [] c = "ჩ" -> <<"Ჩ">> [] c = "ც" -> <<"Ც">>
      [] c = "ძ" -> <<"Ძ">> [] c = "წ" -> <<"Წ">> [] c = "ჭ" -> <<"Ჭ">>
      [] c = "ხ" -> <<"Ხ">> [] c = "ჯ" -> <<"Ჯ">> [] c = "ჰ" -> <<"Ჰ">>
      [] c = "ჱ" -> <<"Ჱ">> [] c = "ჲ" -> <<"Ჲ">> [] c = "ჳ" -> <<"Ჳ">>
      [] c = "ჴ" -> <<"Ჴ">> [] c = "ჵ" -> <<"Ჵ">> [] c = "ჶ" -> <<"Ჶ">>
      [] c = "ჷ" -> <<"Ჷ">> [] c = "ჸ" -> <<"Ჸ">> [] c = "ჹ" -> <<"Ჹ">>
      [] c = "ჺ" -> <<"Ჺ">> [] c = "ჽ" -> <<"Ჽ">> [] c = "ჾ" -> <<"Ჾ">>
      [] c = "ჿ" -> <<"Ჿ">> [] c = "ᏸ" -> <<"Ᏸ">> [] c = "ᏹ" -> <<"Ᏹ">>
      [] c = "ᏺ" -> <<"Ᏺ">> [] c = "ᏻ" -> <<"Ᏻ">> [] c = "ᏼ" -> <<"Ᏼ">>
      [] c = "ᏽ" -> <<"Ᏽ">> [] c = "ᶎ" -> <<"Ᶎ">> [] c = "ẁ" -> <<"Ẁ">>
      [] c = "ẃ" -> <<"Ẃ">> [] c = "ẅ" -> <<"Ẅ">> [] c = "ẇ" -> <<"Ẇ">>
      [] c = "ẉ" -> <<"Ẉ">> [] c = "ẋ" -> <<"Ẋ">> [] c = "ẍ" -> <<"Ẍ">>
      [] c = "ẏ" -> <<"Ẏ">> [] c = "ẑ" -> <<"Ẑ">> [] c = "ẓ" -> <<"Ẓ">>
      [] c = "ẕ" -> <<"Ẕ">> [] c = "ẚ" -> <<"A", "ʾ">> [] c = "ạ" -> <<"Ạ">>
      [] c = "ả" -> <<"Ả">> [] c = "ấ" -> <<"Ấ">> [] c = "ầ" -> <<"Ầ">>
      [] c = "ẩ" -> <<"Ẩ">> [] c = "ẫ" -> <<"Ẫ">> [] c = "ậ" -> <<"Ậ">>
      [] c = "ắ" -> <<"Ắ">> [] c = "ằ" -> <<"Ằ">> [] c = "ẳ" -> <<"Ẳ">>
      [] c = "ẵ" -> <<"Ẵ">> [] c = "ặ" -> <<"Ặ">> [] c = "ẹ" -> <<"Ẹ">>
      [] c = "ẻ" -> <<"Ẻ">> [] c = "ẽ" -> <<"Ẽ">> [] c = "ế" -> <<"Ế">>
      [] c = "ề" -> <<"Ề">> [] c = "ể" -> <<"Ể">> [] c = "ễ" -> <<"Ễ">>
      [] c = "ệ" -> <<"Ệ">> [] c = "ỉ" -> <<"Ỉ">> [] c = "ị" -> <<"Ị">>
      [] c = "ọ" -> <<"Ọ">> [] c = "ỏ" -> <<"Ỏ">> [] c = "ố" -> <<"Ố">>
      [] c = "ồ" -> <<"Ồ">> [] c = "ổ" -> <<"Ổ">> [] c = "ỗ" -> <<"Ỗ">>
      [] c = "ộ" -> <<"Ộ">> [] c = "ớ" -> <<"Ớ">> [] c = "ờ" -> <<"Ờ">>
      [] c = "ở" -> <<"Ở">> [] c = "ỡ" -> <<"Ỡ">> [] c = "ợ" -> <<"Ợ">>
      [] c = "ụ" -> <<"Ụ">> [] c = "ủ" -> <<"Ủ">> [] c = "ứ" -> <<"Ứ">>
      [] c = "ừ" -> <<"Ừ">> [] c = "ử" -> <<"Ử">> [] c = "ữ" -> <<"Ữ">>
      [] c = "ự" -> <<"Ự">> [] c = "ỳ" -> <<"Ỳ">> [] c = "ỵ" -> <<"Ỵ">>
      [] c = "ỷ" -> <<"Ỷ">> [] c = "ỹ" -> <<"Ỹ">> [] c = "ỻ" -> <<"Ỻ">>
      [] c = "ỽ" -> <<"Ỽ">> [] c = "ỿ" -> <<"Ỿ">> [] c = "ᾰ" -> <<"Ᾰ">>
      [] c = "ᾱ" -> <<"Ᾱ">> [] c = "ᾲ" -> <<"Ὰ", "Ι">>
      [] c = "ᾳ" -> <<"Α", "Ι">> [] c = "ᾴ" -> <<"Ά", "Ι">>
      [] c = "ᾼ" -> <<"Α", "Ι">> [] c = "ι" -> <<"Ι">>
      [] c = "ῂ" -> <<"Ὴ", "Ι">> [] c = "ῃ" -> <<"Η", "Ι">>
      [] c = "ῄ" -> <<"Ή", "Ι">> [] c = "ῌ" -> <<"Η", "Ι">>
      [] c = "ῐ" -> <<"Ῐ">> [] c = "ῑ" -> <<"Ῑ">> [] c = "ῠ" -> <<"Ῠ">>
      [] c = "ῡ" -> <<"Ῡ">> [] c = "ῥ" -> <<"Ῥ">> [] c = "ῲ" -> <<"Ὼ", "Ι">>
      [] c = "ῳ" -> <<"Ω", "Ι">> [] c = "ῴ" -> <<"Ώ", "Ι">>
      [] c = "ῼ" -> <<"Ω", "Ι">> [] c = "ↄ" -> <<"Ↄ">> [] c = "ⓐ" -> <<"Ⓐ">>
      [] c = "ⓑ" -> <<"Ⓑ">> [] c = "ⓒ" -> <<"Ⓒ">> [] c = "ⓓ" -> <<"Ⓓ">>
      [] c = "ⓔ" -> <<"Ⓔ">> [] c = "ⓕ" -> <<"Ⓕ">> [] c = "ⓖ" -> <<"Ⓖ">>
      [] c = "ⓗ" -> <<"Ⓗ">> [] c = "ⓘ" -> <<"Ⓘ">> [] c = "ⓙ" -> <<"Ⓙ">>
      [] c = "ⓚ" -> <<"Ⓚ">> [] c = "ⓛ" -> <<"Ⓛ">> [] c = "ⓜ" -> <<"Ⓜ">>
      [] c = "ⓝ" -> <<"Ⓝ">> [] c = "ⓞ" -> <<"Ⓞ">> [] c = "ⓟ" -> <<"Ⓟ">>
      [] c = "ⓠ" -> <<"Ⓠ">> [] c = "ⓡ" -> <<"Ⓡ">> [] c = "ⓢ" -> <<"Ⓢ">>
      [] c = "ⓣ" -> <<"Ⓣ">> [] c = "ⓤ" -> <<"Ⓤ">> [] c = "ⓥ" -> <<"Ⓥ">>
      [] c = "ⓦ" -> <<"Ⓦ">> [] c = "ⓧ" -> <<"Ⓧ">> [] c = "ⓨ" -> <<"Ⓨ">>
      [] c = "ⓩ" -> <<"Ⓩ">> [] c = "ⲁ" -> <<"Ⲁ">> [] c = "ⲃ" -> <<"Ⲃ">>
      [] c = "ⲅ" -> <<"Ⲅ">> [] c = "ⲇ" -> <<"Ⲇ">> [] c = "ⲉ" -> <<"Ⲉ">>
      [] c = "ⲋ" -> <<"Ⲋ">> [] c = "ⲍ" -> <<"Ⲍ">> [] c = "ⲏ" -> <<"Ⲏ">>
      [] c = "ⲑ" -> <<"Ⲑ">> [] c = "ⲓ" -> <<"Ⲓ">> [] c = "ⲕ" -> <<"Ⲕ">>
      [] c = "ⲗ" -> <<"Ⲗ">> [] c = "ⲙ" -> <<"Ⲙ">> [] c = "ⲛ" -> <<"Ⲛ">>
      [] c = "ⲝ" -> <<"Ⲝ">> [] c = "ⲟ" -> <<"Ⲟ">> [] c = "ⲡ" -> <<"Ⲡ">>
      [] c = "ⲣ" -> <<"Ⲣ">> [] c = "ⲥ" -> <<"Ⲥ">> [] c = "ⲧ" -> <<"Ⲧ">>
      [] c = "ⲩ" -> <<"Ⲩ">> [] c = "ⲫ" -> <<"Ⲫ">> [] c = "ⲭ" -> <<"Ⲭ">>
      [] c = "ⲯ" -> <<"Ⲯ">> [] c = "ⲱ" -> <<"Ⲱ">> [] c = "ⲳ" -> <<"Ⲳ">>
      [] c = "ⲵ" -> <<"Ⲵ">> [] c = "ⲷ" -> <<"Ⲷ">> [] c = "ⲹ" -> <<"Ⲹ">>
      [] c = "ⲻ" -> <<"Ⲻ">> [] c = "ⲽ" -> <<"Ⲽ">> [] c = "ⲿ" -> <<"Ⲿ">>
      [] c = "ⳁ" -> <<"Ⳁ">> [] c = "ⳃ" -> <<"Ⳃ">> [] c = "ⳅ" -> <<"Ⳅ">>
      [] c = "ⳇ" -> <<"Ⳇ">> [] c = "ⳉ" -> <<"Ⳉ">> [] c = "ⳋ" -> <<"Ⳋ">>
      [] c = "ⳍ" -> <<"Ⳍ">> [] c = "ⳏ" -> <<"Ⳏ">> [] c = "ⳑ" -> <<"Ⳑ">>
      [] c = "ⳓ" -> <<"Ⳓ">> [] c = "ⳕ" -> <<"Ⳕ">> [] c = "ⳗ" -> <<"Ⳗ">>
      [] c = "ⳙ" -> <<"Ⳙ">> [] c = "ⳛ" -> <<"Ⳛ">> [] c = "ⳝ" -> <<"Ⳝ">>
      [] c = "ⳟ" -> <<"Ⳟ">> [] c = "ⳡ" -> <<"Ⳡ">> [] c = "ⳣ" -> <<"Ⳣ">>
      [] c = "ⳬ" -> <<"Ⳬ">> [] c = "ⳮ" -> <<"Ⳮ">> [] c = "ⳳ" -> <<"Ⳳ">>
      [] c = "ꚁ" -> <<"Ꚁ">> [] c = "ꚃ" -> <<"Ꚃ">> [] c = "ꚅ" -> <<"Ꚅ">>
      [] c = "ꚇ" -> <<"Ꚇ">> [] c = "ꚉ" -> <<"Ꚉ">> [] c = "ꚋ" -> <<"Ꚋ">>
      [] c = "ꚍ" -> <<"Ꚍ">> [] c = "ꚏ" -> <<"Ꚏ">> [] c = "ꚑ" -> <<"Ꚑ">>
      [] c = "ꚓ" -> <<"Ꚓ">> [] c = "ꚕ" -> <<"Ꚕ">> [] c = "ꚗ" -> <<"Ꚗ">>
      [] c = "ꚙ" -> <<"Ꚙ">> [] c = "ꚛ" -> <<"Ꚛ">> [] c = "ꞁ" -> <<"Ꞁ">>
      [] c = "ꞃ" -> <<"Ꞃ">> [] c = "ꞅ" -> <<"Ꞅ">> [] c = "ꞇ" -> <<"Ꞇ">>
      [] c = "ꞌ" -> <<"Ꞌ">> [] c = "ꞑ" -> <<"Ꞑ">> [] c = "ꞓ" -> <<"Ꞓ">>
      [] c = "ꞔ" -> <<"Ꞔ">> [] c = "ꞗ" -> <<"Ꞗ">> [] c = "ꞙ" -> <<"Ꞙ">>
      [] c = "ꞛ" -> <<"Ꞛ">> [] c = "ꞝ" -> <<"Ꞝ">> [] c = "ꞟ" -> <<"Ꞟ">>
      [] c = "ꞡ" -> <<"Ꞡ">> [] c = "ꞣ" -> <<"Ꞣ">> [] c = "ꞥ" -> <<"Ꞥ">>
      [] c = "ꞧ" -> <<"Ꞧ">> [] c = "ꞩ" -> <<"Ꞩ">> [] c = "ꞵ" -> <<"Ꞵ">>
      [] c = "ꞷ" -> <<"Ꞷ">> [] c = "ꞹ" -> <<"Ꞹ">> [] c = "ꞻ" -> <<"Ꞻ">>
      [] c = "ꞽ" -> <<"Ꞽ">> [] c = "ꞿ" -> <<"Ꞿ">> [] c = "ꟁ" -> <<"Ꟁ">>
      [] c = "ꟃ" -> <<"Ꟃ">> [] c = "ꟈ" -> <<"Ꟈ">> [] c = "ꟊ" -> <<"Ꟊ">>
      [] c = "ꟑ" -> <<"Ꟑ">> [] c = "ꟗ" -> <<"Ꟗ">> [] c = "ꟙ" -> <<"Ꟙ">>
      [] c = "ꟶ" -> <<"Ꟶ">> [] c = "ꮀ" -> <<"Ꮀ">> [] c = "ꮁ" -> <<"Ꮁ">>
      [] c = "ꮂ" -> <<"Ꮂ">> [] c = "ꮃ" -> <<"Ꮃ">> [] c = "ꮄ" -> <<"Ꮄ">>
      [] c = "ꮅ" -> <<"Ꮅ">> [] c = "ꮆ" -> <<"Ꮆ">> [] c = "ꮇ" -> <<"Ꮇ">>
      [] c = "ꮈ" -> <<"Ꮈ">> [] c = "ꮉ" -> <<"Ꮉ">> [] c = "ꮊ" -> <<"Ꮊ">>
      [] c = "ꮋ" -> <<"Ꮋ">> [] c = "ꮌ" -> <<"Ꮌ">> [] c = "ꮍ" -> <<"Ꮍ">>
      [] c = "ꮎ" -> <<"Ꮎ">> [] c = "ꮏ" -> <<"Ꮏ">> [] c = "ꮐ" -> <<"Ꮐ">>
      [] c = "ꮑ" -> <<"Ꮑ">> [] c = "ꮒ" -> <<"Ꮒ">> [] c = "ꮓ" -> <<"Ꮓ">>
      [] c = "ꮔ" -> <<"Ꮔ">> [] c = "ꮕ" -> <<"Ꮕ">> [] c = "ꮖ" -> <<"Ꮖ">>
      [] c = "ꮗ" -> <<"Ꮗ">> [] c = "ꮘ" -> <<"Ꮘ">> [] c = "ꮙ" -> <<"Ꮙ">>
      [] c = "ꮚ" -> <<"Ꮚ">> [] c = "ꮛ" -> <<"Ꮛ">> [] c = "ꮜ" -> <<"Ꮜ">>
      [] c = "ꮝ" -> <<"Ꮝ">> [] c = "ꮞ" -> <<"Ꮞ">> [] c = "ꮟ" -> <<"Ꮟ">>
      [] c = "ꮠ" -> <<"Ꮠ">> [] c = "ꮡ" -> <<"Ꮡ">> [] c = "ꮢ" -> <<"Ꮢ">>
      [] c = "ꮣ" -> <<"Ꮣ">> [] c = "ꮤ" -> <<"Ꮤ">> [] c = "ꮥ" -> <<"Ꮥ">>
      [] c = "ꮦ" -> <<"Ꮦ">> [] c = "ꮧ" -> <<"Ꮧ">> [] c = "ꮨ" -> <<"Ꮨ">>
      [] c = "ꮩ" -> <<"Ꮩ">> [] c = "ꮪ" -> <<"Ꮪ">> [] c = "ꮫ" -> <<"Ꮫ">>
      [] c = "ꮬ" -> <<"Ꮬ">> [] c = "ꮭ" -> <<"Ꮭ">> [] c = "ꮮ" -> <<"Ꮮ">>
      [] c = "ꮯ" -> <<"Ꮯ">> [] c = "ꮰ" -> <<"Ꮰ">> [] c = "ꮱ" -> <<"Ꮱ">>
      [] c = "ꮲ" -> <<"Ꮲ">> [] c = "ꮳ" -> <<"Ꮳ">> [] c = "ꮴ" -> <<"Ꮴ">>
      [] c = "ꮵ" -> <<"Ꮵ">> [] c = "ꮶ" -> <<"Ꮶ">> [] c = "ꮷ" -> <<"Ꮷ">>
      [] c = "ꮸ" -> <<"Ꮸ">> [] c = "ꮹ" -> <<"Ꮹ">> [] c = "ꮺ" -> <<"Ꮺ">>
      [] c = "ꮻ" -> <<"Ꮻ">> [] c = "ꮼ" -> <<"Ꮼ">> [] c = "ꮽ" -> <<"Ꮽ">>
      [] c = "ꮾ" -> <<"Ꮾ">> [] c = "ꮿ" -> <<"Ꮿ">>
      [] OTHER -> (CASE c \notin UpperOutside -> <<c>>)

\* The concatenation of the sequences
RECURSIVE flatten(_)
flatten(seqs) == IF seqs = <<>> THEN <<>> ELSE seqs[1] \o flatten(Tail(seqs))

\* str.upper
upper(chars) == flatten([i \in 1..Len(chars) |-> upper_char(chars[i])])

\* str.isspace of a character, which str.strip removes at both ends: the
\* space, \t, \n, \r, \f, then (written as the characters themselves) the
\* vertical tab U+000B, the separators U+001C to U+001F, U+0085, U+00A0 and
\* U+1680.  The spaces from U+2000 on (U+2000 to U+200A, U+2028, U+2029,
\* U+202F, U+205F, U+3000) are characters no string of the module can hold.
is_space(c) ==
    c \in {" ", "\t", "\n", "\r", "\f", "", "", "", "", "", "", " ", " "}

\* str.strip
strip(chars) ==
    LET kept == { i \in 1..Len(chars) : ~is_space(chars[i]) }
    IN  IF kept = {} THEN <<>>
        ELSE LET first == CHOOSE i \in kept : \A j \in kept : i <= j
                 last == CHOOSE i \in kept : \A j \in kept : j <= i
             IN  SubSeq(chars, first, last)

\* The str that the characters spell
RECURSIVE join(_)
join(chars) == IF chars = <<>> THEN "" ELSE chars[1] \o join(Tail(chars))

-----------------------------------------------------------------------------
(* Filtering and statistics of fetch_congress_members *)

\* The terms the statistics pass iterates over (lines 231-235): raises when
\* what is left after the coercion is None, which cannot be iterated
stats_terms(member) ==
    LET terms == member.terms
    IN  CASE terms.t = "absent" -> [ok |-> TRUE, v |-> <<>>]
          [] terms.t = "null" -> [ok |-> FALSE, v |-> <<>>]
          [] terms.t = "list" -> [ok |-> TRUE, v |-> terms.item.v]
          [] terms.t = "dict" ->
               CASE terms.item.t = "absent" -> [ok |-> TRUE, v |-> <<>>]
                 [] terms.item.t = "null" -> [ok |-> FALSE, v |-> <<>>]
                 [] OTHER -> [ok |-> TRUE, v |-> terms.item.v]

\* str(congress) of the congress handed to the fetch: Some(n) for the int n,
\* None for None, the value of args.congress when --congress is not given
str_congress(congress) ==
    IF congress = None THEN "None" ELSE Str(CHOOSE n \in congress : TRUE)

\* t.get('congress') == str(congress)
term_matches(t, congress_number) == t.congress = JStr(str_congress(congress_number))

\* t.get('endYear') != t.get('startYear', 0) + 2: "raise" when the start year
\* is no number, else "true" or "false"
term_not_full(t) ==
    LET start == Get(t.startYear, JInt(0))
    IN  IF start.t \notin {"int", "bool"} THEN "raise"
        ELSE IF t.endYear.t \in {"int", "bool"} /\ t.endYear.n = start.n + 2
             THEN "false" ELSE "true"

\* any(... for t in congress_terms), evaluated in order up to the first term
\* that raises or gives True
any_not_full(congress_terms) ==
    LET hits == { i \in 1..Len(congress_terms) :
                    term_not_full(congress_terms[i]) # "false" }
    IN  IF hits = {} THEN "false"
        ELSE term_not_full(congress_terms[CHOOSE i \in hits : \A j \in hits : i <= j])

\* str(e) of the TypeError of t.get('startYear', 0) + 2 for a start year that
\* is no number
year_error(start) ==
    IF start.t = "str" THEN "can only concatenate str (not \"int\") to str"
    ELSE "unsupported operand type(s) for +: '"
           \o (IF start.t = "null" THEN "NoneType" ELSE "dict") \o "' and 'int'"

\* The element a district is in a Python set: True is 1 and False is 0
set_element(district) == IF district.t = "bool" THEN JInt(district.n) ELSE district

\* Variant of member_stats that collects the districts of the terms of every
\* session
member_stats_any_session(member, congress_number) ==
    LET terms == stats_terms(member)
        is_current_congress == (congress_number = Some(CURRENT_CONGRESS))
        matches(t) == term_matches(t, congress_number)
        congress_terms == SelectSeq(terms.v, matches)
        not_full == any_not_full(congress_terms)
        former == IF is_current_congress
                  THEN ~Truthy(Get(member.currentMember, JBool(TRUE)))
                  ELSE not_full = "true"
        hits == { i \in 1..Len(congress_terms) :
                    term_not_full(congress_terms[i]) # "false" }
        raising == congress_terms[CHOOSE i \in hits : \A j \in hits : i <= j]
        added == { terms.v[i].district : i \in 1..Len(terms.v) } \ {Absent}
        districts == { set_element(d) : d \in added }
        failed(message) ==
            [raised |-> "TypeError", message |-> message, former |-> 0, redistricted |-> 0]
    IN  IF ~terms.ok THEN failed("'NoneType' object is not iterable")
        ELSE IF ~is_current_congress /\ not_full = "raise"
        THEN failed(year_error(Get(raising.startYear, JInt(0))))
        ELSE IF \E d \in added : d.t = "obj" THEN failed("unhashable type: 'dict'")
        ELSE [raised |-> "", message |-> "",
              former |-> IF former THEN 1 ELSE 0,
              redistricted |-> IF Cardinality(districts) > 1 THEN 1 ELSE 0]

\* The statistics of one member (lines 230-254): whether it raises (a term
\* data that cannot be iterated, a start year that is no number, a district
\* that cannot be hashed) and with what message, and what it adds to 'former'
\* and to 'redistricted'
member_stats(member, congress_number) ==
    LET terms == stats_terms(member)
        is_current_congress == (congress_number = Some(CURRENT_CONGRESS))
        matches(t) == term_matches(t, congress_number)
        congress_terms == SelectSeq(terms.v, matches)
        not_full == any_not_full(congress_terms)
        former == IF is_current_congress
                  THEN ~Truthy(Get(member.currentMember, JBool(TRUE)))
                  ELSE not_full = "true"
        hits == { i \in 1..Len(congress_terms) :
                    term_not_full(congress_terms[i]) # "false" }
        raising == congress_terms[CHOOSE i \in hits : \A j \in hits : i <= j]
        added == { congress_terms[i].district : i \in 1..Len(congress_terms) }
                   \ {Absent}
        districts == { set_element(d) : d \in added }
        failed(message) ==
            [raised |-> "TypeError", message |-> message, former |-> 0, redistricted |-> 0]
    IN  IF ~terms.ok THEN failed("'NoneType' object is not iterable")
        ELSE IF ~is_current_congress /\ not_full = "raise"
        THEN failed(year_error(Get(raising.startYear, JInt(0))))
        ELSE IF \E d \in added : d.t = "obj" THEN failed("unhashable type: 'dict'")
        ELSE [raised |-> "", message |-> "",
              former |-> IF former THEN 1 ELSE 0,
              redistricted |-> IF Cardinality(districts) > 1 THEN 1 ELSE 0]

Returned(members, stats) ==
    [status |-> "returned", exc |-> "", message |-> "", members |-> members,
     stats |-> stats]

\* The exception raised, with its message str(e)
Raised(exc, message) ==
    [status |-> "raised", exc |-> exc, message |-> message, members |-> <<>>,
     stats |-> [total |-> 0, former |-> 0, redistricted |-> 0]]

NoOutcome ==
    [status |-> "none", exc |-> "", message |-> "", members |-> <<>>,
     stats |-> [total |-> 0, former |-> 0, redistricted |-> 0]]

\* Index of the first element of a non-empty set of indices
First(indices) == CHOOSE i \in indices : \A j \in indices : i <= j

\* Variant of stats_of that takes as total the records still serving
stats_of_serving(members, congress_number) ==
    LET count(field) ==
            Cardinality({ i \in 1..Len(members) :
                            member_stats(members[i], congress_number)[field] = 1 })
    IN  [total |-> Len(members) - count("former"), former |-> count("former"),
         redistricted |-> count("redistricted")]

\* Lines 223-254: the statistics of the filtered members, none of which
\* raises
stats_of(members, congress_number) ==
    LET count(field) ==
            Cardinality({ i \in 1..Len(members) :
                            member_stats(members[i], congress_number)[field] = 1 })
    IN  [total |-> Len(members), former |-> count("former"),
         redistricted |-> count("redistricted")]

\* Variant of process_members that returns the accumulated members as they
\* are
process_members_unfiltered(members, congress_number, chamber_filter, state_value, debug_on) ==
    Returned(members, [total |-> Len(members), former |-> 0, redistricted |-> 0])

\* Lines 199-256: what fetch_congress_members does with the accumulated
\* members once the loop has ended
process_members(members, congress_number, chamber_filter, state_value, debug_on) ==
    LET sample == { i \in 1..Len(members) :
                      i <= 5 /\ get_current_chamber(members[i]).raised # "" }
        state_given == state_value # None /\ state_value # Some(<<>>)
        state_upper == join(upper(CHOOSE c \in state_value : TRUE))
        state_known == state_upper \in DOMAIN STATE_NAMES
        in_state(m) == m.state = JStr(STATE_NAMES[state_upper])
        by_state == IF state_given THEN SelectSeq(members, in_state) ELSE members
        chamber_given == chamber_filter # None /\ chamber_filter # Some("")
        chamber_fails == { i \in 1..Len(by_state) :
                             get_current_chamber(by_state[i]).raised # "" }
        in_chamber(m) ==
            get_current_chamber(m) = Return(JStr(CHOOSE c \in chamber_filter : TRUE))
        by_chamber == IF chamber_given THEN SelectSeq(by_state, in_chamber)
                      ELSE by_state
        stats_fails == { i \in 1..Len(by_chamber) :
                           member_stats(by_chamber[i], congress_number).raised # "" }
        raised_by(call) == Raised(call.raised, call.value.s)
    IN  IF debug_on /\ sample # {}
        THEN raised_by(get_current_chamber(members[First(sample)]))
        ELSE IF state_given /\ ~state_known
        THEN Raised("ValueError",
                    "Invalid state code: " \o join(CHOOSE c \in state_value : TRUE))
        ELSE IF chamber_given /\ chamber_fails # {}
        THEN raised_by(get_current_chamber(by_state[First(chamber_fails)]))
        ELSE IF stats_fails # {}
        THEN Raised("TypeError",
                    member_stats(by_chamber[First(stats_fails)], congress_number).message)
        ELSE Returned(by_chamber, stats_of(by_chamber, congress_number))

-----------------------------------------------------------------------------
(* SpecCalendar: one call of a calendar function per behaviour, its input      *)
(* drawn from a bounded set                                                  *)

\* No fetch is in progress
FetchIdle ==
    /\ pc = "idle"
    /\ entry = "none"
    /\ congress_arg = Some(CURRENT_CONGRESS)
    /\ chamber_arg = None
    /\ state_arg = None
    /\ state_code = None
    /\ debug_arg = FALSE
    /\ offset = 0
    /\ all_members = <<>>
    /\ requests = <<>>
    /\ responses = <<>>
    /\ outcome = NoOutcome

\* Nothing is on disk and nothing was printed
IoIdle ==
    /\ dirs = {}
    /\ files = {}
    /\ stdout = <<>>
    /\ stderr = <<>>

\* main is not running
MainIdle ==
    /\ main_pc = "idle"
    /\ args = <<>>
    /\ environ = None
    /\ dotenv = [cwd |-> [exists |-> FALSE, key |-> None],
                 script |-> [exists |-> FALSE, key |-> None]]
    /\ today_year = MaxYear - 1
    /\ api_key = None
    /\ resolved = FALSE
    /\ exit_status = None

InitCalendar ==
    /\ op = "none"
    /\ arg = <<>>
    /\ result = <<>>
    /\ FetchIdle
    /\ IoIdle
    /\ MainIdle

CallCalculateCongressNumber ==
    /\ op = "none"
    /\ \E d \in Dates :
           /\ op' = "calculate_congress_number"
           /\ arg' = d
           /\ result' = calculate_congress_number(d)
           /\ UNCHANGED <<fetchVars, ioVars, mainVars>>

CallGetCongressYears ==
    /\ op = "none"
    /\ \E n \in 1..MaxCongress :
           /\ op' = "get_congress_years"
           /\ arg' = n
           /\ result' = get_congress_years(n)
           /\ UNCHANGED <<fetchVars, ioVars, mainVars>>

CallGetCongressTransitionMonth ==
    /\ op = "none"
    /\ \E n \in 1..MaxCongress, y \in {None} \cup { Some(z) : z \in {1931, 1933, 1935} } :
           /\ op' = "get_congress_transition_month"
           /\ arg' = <<n, y>>
           /\ result' = get_congress_transition_month(n, y)
           /\ UNCHANGED <<fetchVars, ioVars, mainVars>>

CallFormatCongressInfo ==
    /\ op = "none"
    /\ \E y \in Years :
           /\ op' = "format_congress_info"
           /\ arg' = y
           /\ result' = format_congress_info(y)
           /\ UNCHANGED <<fetchVars, ioVars, mainVars>>

CallFormatOrdinal ==
    /\ op = "none"
    /\ \E n \in 0..MaxOrdinal :
           /\ op' = "format_ordinal"
           /\ arg' = n
           /\ result' = format_ordinal(n)
           /\ UNCHANGED <<fetchVars, ioVars, mainVars>>

NextCalendar ==
    \/ CallCalculateCongressNumber
    \/ CallGetCongressYears
    \/ CallGetCongressTransitionMonth
    \/ CallFormatCongressInfo
    \/ CallFormatOrdinal

SpecCalendar == InitCalendar /\ [][NextCalendar]_vars

-----------------------------------------------------------------------------
(* SpecNormalizer: one call of get_current_chamber per behaviour, on a       *)
(* member record drawn from the shapes the upstream schema takes             *)

ChamberValues ==
    {Absent, JNull, JStr(""), JStr("House of Representatives"), JStr("House"),
     JStr("Senate")}

NormalizerTerms ==
    { Term(c, g, Absent, Absent, Absent) :
        c \in ChamberValues, g \in {Absent, JStr("118")} }

RECURSIVE SeqsUpTo(_, _)
SeqsUpTo(S, n) ==
    IF n = 0 THEN {<<>>}
    ELSE LET shorter == SeqsUpTo(S, n - 1)
         IN  shorter \cup { Append(q, x) : q \in shorter, x \in S }

NormalizerTermsValues ==
    {NoTerms, NullTerms, TermsDict(NoItem), TermsDict(NullItem)}
      \cup { TermsDict(DictItem(t)) : t \in NormalizerTerms }
      \cup { TermsDict(ListItem(ts)) : ts \in SeqsUpTo(NormalizerTerms, MaxTerms) }
      \cup { TermsList(ts) : ts \in SeqsUpTo(NormalizerTerms, 1) }

NormalizerMembers ==
    { Member(JStr("S000148"), JStr("New York"), Absent, Absent, tv) :
        tv \in NormalizerTermsValues }

InitNormalizer == InitCalendar

CallGetCurrentChamber ==
    /\ op = "none"
    /\ \E m \in NormalizerMembers :
           /\ op' = "get_current_chamber"
           /\ arg' = m
           /\ result' = get_current_chamber(m)
           /\ UNCHANGED <<fetchVars, ioVars, mainVars>>

NextNormalizer == CallGetCurrentChamber

SpecNormalizer == InitNormalizer /\ [][NextNormalizer]_vars

-----------------------------------------------------------------------------
(* The upstream: what requests.get, raise_for_status and json may give *)

\* A response that parses: its 'members' and its 'pagination' (t is "absent",
\* "null" or "dict"; next is the value under 'next')
OkResponse(members, pagination) ==
    [status |-> "ok", exc |-> "", message |-> "", members |-> members,
     pagination |-> pagination]

\* A request that fails: requests.get or raise_for_status raises exc, whose
\* str is message
ErrorResponse(exc, message) ==
    [status |-> "error", exc |-> exc, message |-> message, members |-> <<>>,
     pagination |-> [t |-> "absent", next |-> Absent]]

NoPagination == [t |-> "absent", next |-> Absent]
NullPagination == [t |-> "null", next |-> Absent]
Pagination(next) == [t |-> "dict", next |-> next]

\* The paginations a page may carry.  The upstream keeps to one kind of
\* continuation marker, the text or the nested object: the first page that
\* carries one sets the kind.
Markers(served) ==
    IF served = <<>> THEN {JStr("exists"), JObj} ELSE {served[1].pagination.next}

Paginations(served) ==
    {NoPagination, NullPagination, Pagination(Absent), Pagination(JNull)}
      \cup { Pagination(next) : next \in Markers(served) }

\* raise_for_status raises HTTPError; requests.get raises ConnectionError or
\* Timeout
RequestExceptions == {"HTTPError", "ConnectionError", "Timeout"}

\* str(e) of the exception the upstream raises, which the code passes on as it
\* is: the texts a raised exception of the class may carry.  For HTTPError,
\* the text is the one raise_for_status builds from the status of the answer
\* (with its reason and, from the library, the address asked), or any text the
\* raiser gave it.
failure_messages(exc) ==
    CASE exc = "HTTPError" ->
             {"401 Client Error: Unauthorized",
              "403 Client Error: Forbidden",
              "404 Client Error: Not Found",
              "429 Client Error: Too Many Requests",
              "500 Client Error: Internal Server Error",
              "500 Server Error: Internal Server Error for url: "
                \o "https://api.congress.gov/v3/member/congress/118"
                \o "?api_key=test_key&format=json&limit=250&currentMember=true&offset=0"}
      [] exc = "ConnectionError" -> {"Failed to establish connection"}
      [] exc = "Timeout" -> {"Connection timed out"}

\* f"M{i:03d}"
Pad3(i) == IF i < 10 THEN "00" \o Str(i) ELSE IF i < 100 THEN "0" \o Str(i) ELSE Str(i)

\* The member records the upstream serves in short pages
SenatorSingleTerm ==
    Member(JStr("S000148"), JStr("New York"), Absent, Absent,
           TermsDict(DictItem(Term(JStr("Senate"), JStr("118"), Absent, Absent, Absent))))

\* A senator whose terms, of the sessions 117 and 118, carry their years as
\* text
SenatorTextYears ==
    Member(JStr("S000149"), JStr("New York"), JBool(TRUE), Absent,
           TermsDict(ListItem(
               <<Term(JStr("Senate"), JStr("117"), JStr("2021"), JStr("2023"), Absent),
                 Term(JStr("Senate"), JStr("118"), JStr("2023"), JStr("2025"), Absent)>>)))

FormerRepresentative ==
    Member(JStr("O000001"), JStr("Ohio"), JBool(FALSE), Absent,
           TermsDict(ListItem(
               <<Term(JStr("House of Representatives"), JStr("117"), JInt(2021), JInt(2022), JInt(3)),
                 Term(JStr("House of Representatives"), JStr("117"), JInt(2022), JInt(2023), JInt(4)),
                 Term(JStr("House of Representatives"), JStr("118"), JInt(2023), JInt(2025), JInt(4))>>)))

BareMember == Member(JStr("TEST001"), Absent, JBool(TRUE), Absent, NoTerms)

\* Member i of the paginated fixture
PageMember(i) ==
    Member(JStr("M" \o Pad3(i)), JStr("New York"), JBool(TRUE), Absent,
           TermsDict(ListItem(<<Term(JStr("House"), JStr("118"), Absent, Absent, Absent)>>)))

FetchMembers == {SenatorSingleTerm, SenatorTextYears, FormerRepresentative, BareMember}

\* The full page that answers the request at a given offset
FullPage(at) == [i \in 1..LIMIT |-> PageMember(at + i - 1)]

\* Records served in short pages so far, and full pages served so far
FullPagesServed == Cardinality({ i \in 1..Len(responses) : Len(responses[i].members) = LIMIT })
ShortRecordsServed == Len(all_members) - (LIMIT * FullPagesServed)

\* The pages the upstream may serve next: short pages while their records
\* last, or, for a data set served in full pages, the full page at the offset
Pages ==
    (IF FullPagesServed = 0
     THEN SeqsUpTo(FetchMembers, MaxRecords - ShortRecordsServed) ELSE {<<>>})
      \cup (IF ShortRecordsServed = 0 /\ FullPagesServed < MaxFullPages
            THEN {FullPage(offset)} ELSE {})

\* The answers to the next request: a failure, or a page
FailedResponses ==
    UNION { { ErrorResponse(e, message) : message \in failure_messages(e) } :
            e \in RequestExceptions }

PageResponses == { OkResponse(page, pg) : page \in Pages, pg \in Paginations(responses) }

UpstreamResponses == FailedResponses \cup PageResponses

-----------------------------------------------------------------------------
(* Spec: one fetch per behaviour.  The caller enters by get_congress_members   *)
(* or by fetch_congress_members; each step of the loop is one request.         *)

Args(congresses, chambers, states, debugs) ==
    [congress : congresses, chamber : chambers, state : states, debug : debugs]

NY == <<"N", "Y">>

StateArgs ==
    {None, Some(<<>>), Some(<<" ">>), Some(NY), Some(<<"n", "y", " ">>),
     Some(<<"Z", "Z">>)}

ChamberArgs == {None, Some("House"), Some("Senate"), Some("senate")}

\* The argument lists drawn: each argument varied alone, and the filters and
\* the past session also together
FetchArgs ==
    Args({Some(CURRENT_CONGRESS)}, ChamberArgs, {None}, {FALSE})
      \cup Args({Some(CURRENT_CONGRESS)}, {None}, StateArgs, {FALSE})
      \cup Args({Some(CURRENT_CONGRESS)}, {Some("Senate")}, {Some(NY)}, {FALSE})
      \cup Args({Some(CURRENT_CONGRESS)}, {Some("House")}, {Some(<<"n", "y", " ">>)}, {FALSE})
      \cup Args({Some(CURRENT_CONGRESS - 1)}, {None}, {None}, {FALSE})
      \cup Args({Some(CURRENT_CONGRESS - 1)}, {Some("Senate")}, {Some(NY)}, {FALSE})
      \cup Args({Some(CURRENT_CONGRESS)}, {None}, {None}, {TRUE})

Init ==
    /\ op = "none"
    /\ arg = <<>>
    /\ result = <<>>
    /\ pc = "start"
    /\ entry = "none"
    /\ \E a \in FetchArgs :
           /\ congress_arg = a.congress
           /\ chamber_arg = a.chamber
           /\ state_arg = a.state
           /\ state_code = a.state
           /\ debug_arg = a.debug
    /\ offset = 0
    /\ all_members = <<>>
    /\ requests = <<>>
    /\ responses = <<>>
    /\ outcome = NoOutcome
    /\ IoIdle
    /\ MainIdle

\* get_congress_members, lines 411-426: validate the state code, then enter
\* fetch_congress_members (lines 153-173) with the normalized code
EnterGetCongressMembers ==
    /\ pc = "start"
    /\ entry' = "get_congress_members"
    /\ LET given == state_arg # None
           stripped == strip(CHOOSE c \in state_arg : TRUE)
       IN  IF given /\ (stripped = <<>> \/ join(upper(stripped)) \notin DOMAIN STATE_NAMES)
           THEN /\ pc' = "raised"
                /\ outcome' = Raised("ValueError",
                                      IF stripped = <<>> THEN "State code cannot be empty"
                                      ELSE "Invalid state code: " \o join(stripped))
                /\ state_code' = Some(stripped)
           ELSE /\ pc' = "loop"
                /\ outcome' = outcome
                /\ state_code' = IF given THEN Some(upper(stripped)) ELSE None
    /\ offset' = 0
    /\ all_members' = <<>>
    /\ UNCHANGED <<callVars, ioVars, mainVars, congress_arg, chamber_arg, state_arg,
                   debug_arg, requests, responses>>

\* fetch_congress_members called directly, lines 153-173
EnterFetchCongressMembers ==
    /\ pc = "start"
    /\ entry' = "fetch_congress_members"
    /\ pc' = "loop"
    /\ offset' = 0
    /\ all_members' = <<>>
    /\ UNCHANGED <<callVars, ioVars, mainVars, congress_arg, chamber_arg, state_arg,
                   state_code, debug_arg, requests, responses, outcome>>

\* Variant of request_raises that takes every response as a page, a failed
\* request as an empty one
request_raises_never(resp) == FALSE

\* Lines 179-180: requests.get or raise_for_status raises
request_raises(resp) == resp.status = "error"

\* Variant of has_next that continues whenever the page carries a pagination
\* object
has_next_any_pagination(pagination) == pagination.t = "dict"

\* Lines 193-195: pagination.get('next') is truthy, so the loop goes on
has_next(pagination) == Truthy(pagination.next)

\* The end of fetch_congress_members once the loop has left with members
Finish(members) ==
    LET out == process_members(members, congress_arg, chamber_arg, state_code, debug_arg)
    IN  /\ all_members' = members
        /\ outcome' = out
        /\ pc' = IF out.status = "returned" THEN "done" ELSE "raised"
        /\ offset' = offset

\* One pass of the while loop, lines 175-197, on the answer resp, and, when
\* the loop ends, the rest of the function, lines 199-260
Respond(resp) ==
    /\ requests' = Append(requests,
           [offset |-> offset, limit |-> LIMIT,
            currentMember |-> IF congress_arg = Some(CURRENT_CONGRESS)
                              THEN "true" ELSE "false"])
    /\ responses' = Append(responses, resp)
    /\ IF request_raises(resp)
       THEN /\ pc' = "raised"
            /\ outcome' = Raised(resp.exc, resp.message)
            /\ UNCHANGED <<offset, all_members>>
       ELSE IF resp.members = <<>>
       THEN Finish(all_members)
       ELSE IF resp.pagination.t = "null"
       THEN /\ pc' = "raised"
            /\ outcome' = Raised("AttributeError",
                                  "'NoneType' object has no attribute 'get'")
            /\ all_members' = all_members \o resp.members
            /\ offset' = offset
       ELSE IF ~has_next(resp.pagination)
       THEN Finish(all_members \o resp.members)
       ELSE /\ pc' = "loop"
            /\ all_members' = all_members \o resp.members
            /\ offset' = offset + LIMIT
            /\ outcome' = outcome
    /\ stderr' = IF request_raises(resp)
                  THEN Append(stderr, "Error fetching data from Congress.gov API: "
                                        \o resp.message)
                  ELSE stderr

\* The next request of the loop, answered by one of UpstreamResponses
RequestPage ==
    /\ pc = "loop"
    /\ Len(requests) < MaxRequests
    /\ \/ \E resp \in FailedResponses : Respond(resp)
       \/ \E resp \in PageResponses : Respond(resp)
    /\ UNCHANGED <<callVars, mainVars, dirs, files, stdout, entry, congress_arg,
                   chamber_arg, state_arg, state_code, debug_arg>>

Next ==
    \/ EnterGetCongressMembers
    \/ EnterFetchCongressMembers
    \/ RequestPage

Spec == Init /\ [][Next]_vars

\* The fetch under fairness: the call is a sequential computation that goes
\* on while it can, each request being answered with a page or an exception
SpecFair == Spec /\ WF_vars(Next)

-----------------------------------------------------------------------------
(* write_to_csv.  A path is a record [absolute, parts]: whether it starts    *)
(* at the root, and its components.  A file is a record [path, rows], its    *)
(* rows the lists of cells csv.DictWriter wrote.                             *)

FIELDS == <<"bioguideId", "name", "party", "state", "district", "chamber", "url">>

OutputPath(absolute, parts) == [absolute |-> absolute, parts |-> parts]

\* '/'.join(parts)
RECURSIVE join_path(_)
join_path(parts) ==
    IF Len(parts) = 1 THEN parts[1] ELSE parts[1] \o "/" \o join_path(Tail(parts))

\* str(Path(output_file))
path_str(path) == (IF path.absolute THEN "/" ELSE "") \o join_path(path.parts)

\* Path(output_file).name
path_name(path) == path.parts[Len(path.parts)]

\* results_dir / output_path.name, as a str
final_path(path) == "results/" \o path_name(path)

\* The cell DictWriter writes for a value: '' for a missing key and for None,
\* str(value) otherwise
csv_cell(value) ==
    CASE value.t \in {"absent", "null"} -> ""
      [] value.t = "str" -> value.s
      [] value.t = "int" -> Str(value.n)
      [] value.t = "bool" -> IF value.n = 1 THEN "True" ELSE "False"
      [] value.t = "obj" -> value.s

\* member.get(key): the value a record holds under a key, Absent when it has
\* no such key
field(member, key) == IF key \in DOMAIN member THEN member[key] ELSE Absent

\* The row DictWriter writes for a member (restval='', extrasaction='ignore'):
\* the cells of FIELDS in order, and nothing for the other keys of the record
csv_row(member) == [i \in 1..Len(FIELDS) |-> csv_cell(field(member, FIELDS[i]))]

\* The exception classes of OSError: IOError and EnvironmentError are other
\* names of OSError, then its subclasses among the built-in exceptions,
\* io.UnsupportedOperation, and the exceptions of requests (RequestException
\* derives from IOError)
OSErrors ==
    {"OSError", "IOError", "EnvironmentError", "BlockingIOError", "ChildProcessError",
     "ConnectionError", "BrokenPipeError", "ConnectionAbortedError",
     "ConnectionRefusedError", "ConnectionResetError", "FileExistsError",
     "FileNotFoundError", "InterruptedError", "IsADirectoryError",
     "NotADirectoryError", "PermissionError", "ProcessLookupError", "TimeoutError",
     "UnsupportedOperation", "RequestException", "HTTPError", "Timeout"}

\* 'except IOError' catches the exception: it is an OSError; csv.Error is not
is_os_error(exc) == exc \in OSErrors

\* What the environment makes fail during a call: at is "none", "mkdir",
\* "open", "writeheader" or "writerows"
Fault(at, exc, message) == [at |-> at, exc |-> exc, message |-> message]

NoFault == Fault("none", "", "")

\* The effect of a call: the outcome, the file system after it, the lines
\* printed
Effect(outcome_, dirs_, files_, out, err) ==
    [result |-> outcome_, dirs |-> dirs_, files |-> files_, out |-> out, err |-> err]

\* Lines 262-288
write_to_csv(members, output_file, stats, dirs_, files_, fault) ==
    LET final == final_path(output_file)
        others == { f \in files_ : f.path # final }
        made == dirs_ \cup {"results"}
        written(rows) == others \cup {[path |-> final, rows |-> rows]}
        rows_of == [i \in 1..Len(members) |-> csv_row(members[i])]
        reraise(exc, message) ==
            IF is_os_error(exc)
            THEN RaiseWith("OSError", "Error writing to " \o final \o ": " \o message)
            ELSE RaiseWith(exc, message)
        reraised == reraise(fault.exc, fault.message)
    IN  IF members = <<>>
        THEN Effect(Return(JNull), dirs_, files_, <<>>, <<"No members found to export">>)
        ELSE IF output_file.absolute
        THEN Effect(RaiseWith("PermissionError",
                              "Cannot write to absolute path: " \o path_str(output_file)),
                    dirs_, files_, <<>>, <<>>)
        ELSE IF fault.at = "mkdir" /\ "results" \notin dirs_
        THEN Effect(RaiseWith(fault.exc, fault.message), dirs_, files_, <<>>, <<>>)
        ELSE IF \E f \in files_ : f.path = "results"
        THEN Effect(RaiseWith("FileExistsError", "[Errno 17] File exists: 'results'"),
                    dirs_, files_, <<>>, <<>>)
        ELSE IF fault.at = "open"
        THEN Effect(reraised, made, files_, <<>>, <<>>)
        ELSE IF final \in dirs_
        THEN Effect(reraise("IsADirectoryError",
                            "[Errno 21] Is a directory: '" \o final \o "'"),
                    made, files_, <<>>, <<>>)
        ELSE IF fault.at = "writeheader"
        THEN Effect(reraised, made, written(<<>>), <<>>, <<>>)
        ELSE IF fault.at = "writerows"
        THEN Effect(reraised, made, written(<<FIELDS>>), <<>>, <<>>)
        ELSE Effect(Return(JNull), made, written(<<FIELDS>> \o rows_of),
                    <<"Successfully exported " \o Str(stats.total) \o " members to "
                        \o final>>, <<>>)

-----------------------------------------------------------------------------
(* SpecExport: one call of write_to_csv per behaviour, on a file system and  *)
(* with a failure drawn from what the environment may do                     *)

ExportPaths ==
    {OutputPath(FALSE, <<"test.csv">>), OutputPath(FALSE, <<"sub", "members_118_All.csv">>),
     OutputPath(TRUE, <<"nonexistent", "dir", "test.csv">>),
     OutputPath(TRUE, <<"tmp", "test.csv">>)}

\* A record with the seven keys of FIELDS
Exported(bioguideId, name, party, state, district, chamber, url) ==
    [bioguideId |-> bioguideId, name |-> name, party |-> party, state |-> state,
     district |-> district, chamber |-> chamber, url |-> url]

\* The record of the file tests
SampleMember ==
    Exported(JStr("T001"), JStr("Test Member, Jr."), JStr("D"), JStr("New York"),
             JStr("1"), JStr("House"), JStr("https://api.congress.gov/v3/member/T001"))

\* A record whose state is a nested object and whose district is None
NestedStateMember ==
    Exported(JStr("A"), Absent, Absent, JObj, JNull, JStr("Senate"), Absent)

ExportMembers ==
    SeqsUpTo(FetchMembers \cup {SampleMember, NestedStateMember}, MaxRecords)

ExportFaults ==
    {NoFault,
     Fault("mkdir", "PermissionError", "[Errno 13] Permission denied: 'results'"),
     Fault("open", "PermissionError", "Permission denied"),
     Fault("open", "OSError", "Disk full"),
     Fault("writeheader", "csv.Error", "CSV write error"),
     Fault("writerows", "csv.Error", "CSV write error"),
     Fault("writerows", "OSError", "[Errno 28] No space left on device"),
     Fault("writerows", "TimeoutError", "[Errno 110] Connection timed out")}

\* The file that may already be there
OldFile == [path |-> "results/test.csv", rows |-> <<FIELDS, csv_row(BareMember)>>]

\* A file named results, where the directory is to be
ResultsFile == [path |-> "results", rows |-> <<>>]

\* No results directory, an empty one, one that holds the file, one that
\* holds a directory at the target path, and a file in place of the directory
ExportFileSystems ==
    { [dirs |-> {}, files |-> {}], [dirs |-> {"results"}, files |-> {}],
      [dirs |-> {"results"}, files |-> {OldFile}],
      [dirs |-> {"results", "results/test.csv"}, files |-> {}],
      [dirs |-> {}, files |-> {ResultsFile}] }

InitExport ==
    /\ op = "none"
    /\ arg = <<>>
    /\ result = <<>>
    /\ FetchIdle
    /\ MainIdle
    /\ stdout = <<>>
    /\ stderr = <<>>
    /\ \E fs \in ExportFileSystems :
           /\ dirs = fs.dirs
           /\ files = fs.files

CallWriteToCsv ==
    /\ op = "none"
    /\ \E members \in ExportMembers, output_file \in ExportPaths, fault \in ExportFaults :
           LET stats == [total |-> Len(members), former |-> 0, redistricted |-> 0]
               effect == write_to_csv(members, output_file, stats, dirs, files, fault)
           IN  /\ op' = "write_to_csv"
               /\ arg' = [members |-> members, output_file |-> output_file,
                          stats |-> stats, fault |-> fault, dirs |-> dirs,
                          files |-> files]
               /\ result' = effect.result
               /\ dirs' = effect.dirs
               /\ files' = effect.files
               /\ stdout' = stdout \o effect.out
               /\ stderr' = stderr \o effect.err
               /\ UNCHANGED <<fetchVars, mainVars>>

NextExport == CallWriteToCsv

SpecExport == InitExport /\ [][NextExport]_vars

-----------------------------------------------------------------------------
(* main and what it calls before and after the fetch.  The text of a        *)
(* command-line option is, like a state code, a sequence of characters; an   *)
(* int option is a scalar: absent, an int, or a str that int() rejects.      *)

\* The characters a string can hold whose lower case is a character no string
\* can hold
LowerOutside ==
    {"Ɓ", "Ɔ", "Ɖ", "Ɗ", "Ə", "Ɛ", "Ɠ", "Ɣ", "Ɩ", "Ɨ", "Ɯ", "Ɲ", "Ɵ", "Ͻ",
     "Ͼ", "Ͽ", "Ⴀ", "Ⴁ", "Ⴂ", "Ⴃ", "Ⴄ", "Ⴅ", "Ⴆ", "Ⴇ", "Ⴈ", "Ⴉ", "Ⴊ", "Ⴋ",
     "Ⴌ", "Ⴍ", "Ⴎ", "Ⴏ", "Ⴐ", "Ⴑ", "Ⴒ", "Ⴓ", "Ⴔ", "Ⴕ", "Ⴖ", "Ⴗ", "Ⴘ", "Ⴙ",
     "Ⴚ", "Ⴛ", "Ⴜ", "Ⴝ", "Ⴞ", "Ⴟ", "Ⴠ", "Ⴡ", "Ⴢ", "Ⴣ", "Ⴤ", "Ⴥ", "Ⴧ", "Ⴭ",
     "Ꭰ", "Ꭱ", "Ꭲ", "Ꭳ", "Ꭴ", "Ꭵ", "Ꭶ", "Ꭷ", "Ꭸ", "Ꭹ", "Ꭺ", "Ꭻ", "Ꭼ", "Ꭽ",
     "Ꭾ", "Ꭿ", "Ὰ", "Ά", "Ὲ", "Έ", "Ὴ", "Ή", "Ὶ", "Ί", "Ὺ", "Ύ", "Ὸ", "Ό",
     "Ὼ", "Ώ", "Ɥ", "Ɦ", "Ɜ", "Ɡ", "Ɬ", "Ɪ", "Ꭓ"}

\* str.lower of a character on its own; no value for a character of
\* LowerOutside
lower_char(c) ==
    CASE c = "A" -> "a" [] c = "B" -> "b" [] c = "C" -> "c"
      [] c = "D" -> "d" [] c = "E" -> "e" [] c = "F" -> "f" [] c = "G" -> "g"
      [] c = "H" -> "h" [] c = "I" -> "i" [] c = "J" -> "j" [] c = "K" -> "k"
      [] c = "L" -> "l" [] c = "M" -> "m" [] c = "N" -> "n" [] c = "O" -> "o"
      [] c = "P" -> "p" [] c = "Q" -> "q" [] c = "R" -> "r" [] c = "S" -> "s"
      [] c = "T" -> "t" [] c = "U" -> "u" [] c = "V" -> "v" [] c = "W" -> "w"
      [] c = "X" -> "x" [] c = "Y" -> "y" [] c = "Z" -> "z" [] c = "À" -> "à"
      [] c = "Á" -> "á" [] c = "Â" -> "â" [] c = "Ã" -> "ã" [] c = "Ä" -> "ä"
      [] c = "Å" -> "å" [] c = "Æ" -> "æ" [] c = "Ç" -> "ç" [] c = "È" -> "è"
      [] c = "É" -> "é" [] c = "Ê" -> "ê" [] c = "Ë" -> "ë" [] c = "Ì" -> "ì"
      [] c = "Í" -> "í" [] c = "Î" -> "î" [] c = "Ï" -> "ï" [] c = "Ð" -> "ð"
      [] c = "Ñ" -> "ñ" [] c = "Ò" -> "ò" [] c = "Ó" -> "ó" [] c = "Ô" -> "ô"
      [] c = "Õ" -> "õ" [] c = "Ö" -> "ö" [] c = "Ø" -> "ø" [] c = "Ù" -> "ù"
      [] c = "Ú" -> "ú" [] c = "Û" -> "û" [] c = "Ü" -> "ü" [] c = "Ý" -> "ý"
      [] c = "Þ" -> "þ" [] c = "Ƃ" -> "ƃ" [] c = "Ƅ" -> "ƅ" [] c = "Ƈ" -> "ƈ"
      [] c = "Ƌ" -> "ƌ" [] c = "Ǝ" -> "ǝ" [] c = "Ƒ" -> "ƒ" [] c = "Ƙ" -> "ƙ"
      [] c = "Ơ" -> "ơ" [] c = "Ƣ" -> "ƣ" [] c = "Ƥ" -> "ƥ" [] c = "Ʀ" -> "ʀ"
      [] c = "Ƨ" -> "ƨ" [] c = "Ʃ" -> "ʃ" [] c = "Ƭ" -> "ƭ" [] c = "Ʈ" -> "ʈ"
      [] c = "Ư" -> "ư" [] c = "Ʊ" -> "ʊ" [] c = "Ʋ" -> "ʋ" [] c = "Ƴ" -> "ƴ"
      [] c = "Ƶ" -> "ƶ" [] c = "Ʒ" -> "ʒ" [] c = "Ƹ" -> "ƹ" [] c = "Ƽ" -> "ƽ"
      [] c = "Ǆ" -> "ǆ" [] c = "ǅ" -> "ǆ" [] c = "Ǉ" -> "ǉ" [] c = "ǈ" -> "ǉ"
      [] c = "Ǌ" -> "ǌ" [] c = "ǋ" -> "ǌ" [] c = "Ǎ" -> "ǎ" [] c = "Ǐ" -> "ǐ"
      [] c = "Ǒ" -> "ǒ" [] c = "Ǔ" -> "ǔ" [] c = "Ǖ" -> "ǖ" [] c = "Ǘ" -> "ǘ"
      [] c = "Ǚ" -> "ǚ" [] c = "Ǜ" -> "ǜ" [] c = "Ǟ" -> "ǟ" [] c = "Ǡ" -> "ǡ"
      [] c = "Ǣ" -> "ǣ" [] c = "Ǥ" -> "ǥ" [] c = "Ǧ" -> "ǧ" [] c = "Ǩ" -> "ǩ"
      [] c = "Ǫ" -> "ǫ" [] c = "Ǭ" -> "ǭ" [] c = "Ǯ" -> "ǯ" [] c = "Ǳ" -> "ǳ"
      [] c = "ǲ" -> "ǳ" [] c = "Ǵ" -> "ǵ" [] c = "Ƕ" -> "ƕ" [] c = "Ƿ" -> "ƿ"
      [] c = "Ǹ" -> "ǹ" [] c = "Ǻ" -> "ǻ" [] c = "Ǽ" -> "ǽ" [] c = "Ǿ" -> "ǿ"
      [] c = "Ά" -> "ά" [] c = "Έ" -> "έ" [] c = "Ή" -> "ή" [] c = "Ί" -> "ί"
      [] c = "Ό" -> "ό" [] c = "Ύ" -> "ύ" [] c = "Ώ" -> "ώ" [] c = "Α" -> "α"
      [] c = "Β" -> "β" [] c = "Γ" -> "γ" [] c = "Δ" -> "δ" [] c = "Ε" -> "ε"
      [] c = "Ζ" -> "ζ" [] c = "Η" -> "η" [] c = "Θ" -> "θ" [] c = "Ι" -> "ι"
      [] c = "Κ" -> "κ" [] c = "Λ" -> "λ" [] c = "Μ" -> "μ" [] c = "Ν" -> "ν"
      [] c = "Ξ" -> "ξ" [] c = "Ο" -> "ο" [] c = "Π" -> "π" [] c = "Ρ" -> "ρ"
      [] c = "Σ" -> "σ" [] c = "Τ" -> "τ" [] c = "Υ" -> "υ" [] c = "Φ" -> "φ"
      [] c = "Χ" -> "χ" [] c = "Ψ" -> "ψ" [] c = "Ω" -> "ω" [] c = "Ϊ" -> "ϊ"
      [] c = "Ϋ" -> "ϋ" [] c = "Ϗ" -> "ϗ" [] c = "Ϙ" -> "ϙ" [] c = "Ϛ" -> "ϛ"
      [] c = "Ϝ" -> "ϝ" [] c = "Ϟ" -> "ϟ" [] c = "Ϡ" -> "ϡ" [] c = "Ϣ" -> "ϣ"
      [] c = "Ϥ" -> "ϥ" [] c = "Ϧ" -> "ϧ" [] c = "Ϩ" -> "ϩ" [] c = "Ϫ" -> "ϫ"
      [] c = "Ϭ" -> "ϭ" [] c = "Ϯ" -> "ϯ" [] c = "ϴ" -> "θ" [] c = "Ϸ" -> "ϸ"
      [] c = "Ϲ" -> "ϲ" [] c = "Ϻ" -> "ϻ" [] c = "Ҁ" -> "ҁ" [] c = "Ҋ" -> "ҋ"
      [] c = "Ҍ" -> "ҍ" [] c = "Ҏ" -> "ҏ" [] c = "Ґ" -> "ґ" [] c = "Ғ" -> "ғ"
      [] c = "Ҕ" -> "ҕ" [] c = "Җ" -> "җ" [] c = "Ҙ" -> "ҙ" [] c = "Қ" -> "қ"
      [] c = "Ҝ" -> "ҝ" [] c = "Ҟ" -> "ҟ" [] c = "Ҡ" -> "ҡ" [] c = "Ң" -> "ң"
      [] c = "Ҥ" -> "ҥ" [] c = "Ҧ" -> "ҧ" [] c = "Ҩ" -> "ҩ" [] c = "Ҫ" -> "ҫ"
      [] c = "Ҭ" -> "ҭ" [] c = "Ү" -> "ү" [] c = "Ұ" -> "ұ" [] c = "Ҳ" -> "ҳ"
      [] c = "Ҵ" -> "ҵ" [] c = "Ҷ" -> "ҷ" [] c = "Ҹ" -> "ҹ" [] c = "Һ" -> "һ"
      [] c = "Ҽ" -> "ҽ" [] c = "Ҿ" -> "ҿ" [] c = "Ӏ" -> "ӏ" [] c = "Ӂ" -> "ӂ"
      [] c = "Ӄ" -> "ӄ" [] c = "Ӆ" -> "ӆ" [] c = "Ӈ" -> "ӈ" [] c = "Ӊ" -> "ӊ"
      [] c = "Ӌ" -> "ӌ" [] c = "Ӎ" -> "ӎ" [] c = "Ӑ" -> "ӑ" [] c = "Ӓ" -> "ӓ"
      [] c = "Ӕ" -> "ӕ" [] c = "Ӗ" -> "ӗ" [] c = "Ә" -> "ә" [] c = "Ӛ" -> "ӛ"
      [] c = "Ӝ" -> "ӝ" [] c = "Ӟ" -> "ӟ" [] c = "Ӡ" -> "ӡ" [] c = "Ӣ" -> "ӣ"
      [] c = "Ӥ" -> "ӥ" [] c = "Ӧ" -> "ӧ" [] c = "Ө" -> "ө" [] c = "Ӫ" -> "ӫ"
      [] c = "Ӭ" -> "ӭ" [] c = "Ӯ" -> "ӯ" [] c = "Ӱ" -> "ӱ" [] c = "Ӳ" -> "ӳ"
      [] c = "Ӵ" -> "ӵ" [] c = "Ӷ" -> "ӷ" [] c = "Ӹ" -> "ӹ" [] c = "Ӻ" -> "ӻ"
      [] c = "Ӽ" -> "ӽ" [] c = "Ӿ" -> "ӿ" [] c = "Ꮀ" -> "ꮀ" [] c = "Ꮁ" -> "ꮁ"
      [] c = "Ꮂ" -> "ꮂ" [] c = "Ꮃ" -> "ꮃ" [] c = "Ꮄ" -> "ꮄ" [] c = "Ꮅ" -> "ꮅ"
      [] c = "Ꮆ" -> "ꮆ" [] c = "Ꮇ" -> "ꮇ" [] c = "Ꮈ" -> "ꮈ" [] c = "Ꮉ" -> "ꮉ"
      [] c = "Ꮊ" -> "ꮊ" [] c = "Ꮋ" -> "ꮋ" [] c = "Ꮌ" -> "ꮌ" [] c = "Ꮍ" -> "ꮍ"
      [] c = "Ꮎ" -> "ꮎ" [] c = "Ꮏ" -> "ꮏ" [] c = "Ꮐ" -> "ꮐ" [] c = "Ꮑ" -> "ꮑ"
      [] c = "Ꮒ" -> "ꮒ" [] c = "Ꮓ" -> "ꮓ" [] c = "Ꮔ" -> "ꮔ" [] c = "Ꮕ" -> "ꮕ"
      [] c = "Ꮖ" -> "ꮖ" [] c = "Ꮗ" -> "ꮗ" [] c = "Ꮘ" -> "ꮘ" [] c = "Ꮙ" -> "ꮙ"
      [] c = "Ꮚ" -> "ꮚ" [] c = "Ꮛ" -> "ꮛ" [] c = "Ꮜ" -> "ꮜ" [] c = "Ꮝ" -> "ꮝ"
      [] c = "Ꮞ" -> "ꮞ" [] c = "Ꮟ" -> "ꮟ" [] c = "Ꮠ" -> "ꮠ" [] c = "Ꮡ" -> "ꮡ"
      [] c = "Ꮢ" -> "ꮢ" [] c = "Ꮣ" -> "ꮣ" [] c = "Ꮤ" -> "ꮤ" [] c = "Ꮥ" -> "ꮥ"
      [] c = "Ꮦ" -> "ꮦ" [] c = "Ꮧ" -> "ꮧ" [] c = "Ꮨ" -> "ꮨ" [] c = "Ꮩ" -> "ꮩ"
      [] c = "Ꮪ" -> "ꮪ" [] c = "Ꮫ" -> "ꮫ" [] c = "Ꮬ" -> "ꮬ" [] c = "Ꮭ" -> "ꮭ"
      [] c = "Ꮮ" -> "ꮮ" [] c = "Ꮯ" -> "ꮯ" [] c = "Ꮰ" -> "ꮰ" [] c = "Ꮱ" -> "ꮱ"
      [] c = "Ꮲ" -> "ꮲ" [] c = "Ꮳ" -> "ꮳ" [] c = "Ꮴ" -> "ꮴ" [] c = "Ꮵ" -> "ꮵ"
      [] c = "Ꮶ" -> "ꮶ" [] c = "Ꮷ" -> "ꮷ" [] c = "Ꮸ" -> "ꮸ" [] c = "Ꮹ" -> "ꮹ"
      [] c = "Ꮺ" -> "ꮺ" [] c = "Ꮻ" -> "ꮻ" [] c = "Ꮼ" -> "ꮼ" [] c = "Ꮽ" -> "ꮽ"
      [] c = "Ꮾ" -> "ꮾ" [] c = "Ꮿ" -> "ꮿ" [] c = "Ᏸ" -> "ᏸ" [] c = "Ᏹ" -> "ᏹ"
      [] c = "Ᏺ" -> "ᏺ" [] c = "Ᏻ" -> "ᏻ" [] c = "Ᏼ" -> "ᏼ" [] c = "Ᏽ" -> "ᏽ"
      [] c = "Ა" -> "ა" [] c = "Ბ" -> "ბ" [] c = "Გ" -> "გ" [] c = "Დ" -> "დ"
      [] c = "Ე" -> "ე" [] c = "Ვ" -> "ვ" [] c = "Ზ" -> "ზ" [] c = "Თ" -> "თ"
      [] c = "Ი" -> "ი" [] c = "Კ" -> "კ" [] c = "Ლ" -> "ლ" [] c = "Მ" -> "მ"
      [] c = "Ნ" -> "ნ" [] c = "Ო" -> "ო" [] c = "Პ" -> "პ" [] c = "Ჟ" -> "ჟ"
      [] c = "Რ" -> "რ" [] c = "Ს" -> "ს" [] c = "Ტ" -> "ტ" [] c = "Უ" -> "უ"
      [] c = "Ფ" -> "ფ" [] c = "Ქ" -> "ქ" [] c = "Ღ" -> "ღ" [] c = "Ყ" -> "ყ"
      [] c = "Შ" -> "შ" [] c = "Ჩ" -> "ჩ" [] c = "Ც" -> "ც" [] c = "Ძ" -> "ძ"
      [] c = "Წ" -> "წ" [] c = "Ჭ" -> "ჭ" [] c = "Ხ" -> "ხ" [] c = "Ჯ" -> "ჯ"
      [] c = "Ჰ" -> "ჰ" [] c = "Ჱ" -> "ჱ" [] c = "Ჲ" -> "ჲ" [] c = "Ჳ" -> "ჳ"
      [] c = "Ჴ" -> "ჴ" [] c = "Ჵ" -> "ჵ" [] c = "Ჶ" -> "ჶ" [] c = "Ჷ" -> "ჷ"
      [] c = "Ჸ" -> "ჸ" [] c = "Ჹ" -> "ჹ" [] c = "Ჺ" -> "ჺ" [] c = "Ჽ" -> "ჽ"
      [] c = "Ჾ" -> "ჾ" [] c = "Ჿ" -> "ჿ" [] c = "Ẁ" -> "ẁ" [] c = "Ẃ" -> "ẃ"
      [] c = "Ẅ" -> "ẅ" [] c = "Ẇ" -> "ẇ" [] c = "Ẉ" -> "ẉ" [] c = "Ẋ" -> "ẋ"
      [] c = "Ẍ" -> "ẍ" [] c = "Ẏ" -> "ẏ" [] c = "Ẑ" -> "ẑ" [] c = "Ẓ" -> "ẓ"
      [] c = "Ẕ" -> "ẕ" [] c = "ẞ" -> "ß" [] c = "Ạ" -> "ạ" [] c = "Ả" -> "ả"
      [] c = "Ấ" -> "ấ" [] c = "Ầ" -> "ầ" [] c = "Ẩ" -> "ẩ" [] c = "Ẫ" -> "ẫ"
      [] c = "Ậ" -> "ậ" [] c = "Ắ" -> "ắ" [] c = "Ằ" -> "ằ" [] c = "Ẳ" -> "ẳ"
      [] c = "Ẵ" -> "ẵ" [] c = "Ặ" -> "ặ" [] c = "Ẹ" -> "ẹ" [] c = "Ẻ" -> "ẻ"
      [] c = "Ẽ" -> "ẽ" [] c = "Ế" -> "ế" [] c = "Ề" -> "ề" [] c = "Ể" -> "ể"
      [] c = "Ễ" -> "ễ" [] c = "Ệ" -> "ệ" [] c = "Ỉ" -> "ỉ" [] c = "Ị" -> "ị"
      [] c = "Ọ" -> "ọ" [] c = "Ỏ" -> "ỏ" [] c = "Ố" -> "ố" [] c = "Ồ" -> "ồ"
      [] c = "Ổ" -> "ổ" [] c = "Ỗ" -> "ỗ" [] c = "Ộ" -> "ộ" [] c = "Ớ" -> "ớ"
      [] c = "Ờ" -> "ờ" [] c = "Ở" -> "ở" [] c = "Ỡ" -> "ỡ" [] c = "Ợ" -> "ợ"
      [] c = "Ụ" -> "ụ" [] c = "Ủ" -> "ủ" [] c = "Ứ" -> "ứ" [] c = "Ừ" -> "ừ"
      [] c = "Ử" -> "ử" [] c = "Ữ" -> "ữ" [] c = "Ự" -> "ự" [] c = "Ỳ" -> "ỳ"
      [] c = "Ỵ" -> "ỵ" [] c = "Ỷ" -> "ỷ" [] c = "Ỹ" -> "ỹ" [] c = "Ỻ" -> "ỻ"
      [] c = "Ỽ" -> "ỽ" [] c = "Ỿ" -> "ỿ" [] c = "ᾈ" -> "ᾀ" [] c = "ᾉ" -> "ᾁ"
      [] c = "ᾊ" -> "ᾂ" [] c = "ᾋ" -> "ᾃ" [] c = "ᾌ" -> "ᾄ" [] c = "ᾍ" -> "ᾅ"
      [] c = "ᾎ" -> "ᾆ" [] c = "ᾏ" -> "ᾇ" [] c = "ᾘ" -> "ᾐ" [] c = "ᾙ" -> "ᾑ"
      [] c = "ᾚ" -> "ᾒ" [] c = "ᾛ" -> "ᾓ" [] c = "ᾜ" -> "ᾔ" [] c = "ᾝ" -> "ᾕ"
      [] c = "ᾞ" -> "ᾖ" [] c = "ᾟ" -> "ᾗ" [] c = "ᾨ" -> "ᾠ" [] c = "ᾩ" -> "ᾡ"
      [] c = "ᾪ" -> "ᾢ" [] c = "ᾫ" -> "ᾣ" [] c = "ᾬ" -> "ᾤ" [] c = "ᾭ" -> "ᾥ"
      [] c = "ᾮ" -> "ᾦ" [] c = "ᾯ" -> "ᾧ" [] c = "Ᾰ" -> "ᾰ" [] c = "Ᾱ" -> "ᾱ"
      [] c = "ᾼ" -> "ᾳ" [] c = "ῌ" -> "ῃ" [] c = "Ῐ" -> "ῐ" [] c = "Ῑ" -> "ῑ"
      [] c = "Ῠ" -> "ῠ" [] c = "Ῡ" -> "ῡ" [] c = "Ῥ" -> "ῥ" [] c = "ῼ" -> "ῳ"
      [] c = "Ↄ" -> "ↄ" [] c = "Ⓐ" -> "ⓐ" [] c = "Ⓑ" -> "ⓑ" [] c = "Ⓒ" -> "ⓒ"
      [] c = "Ⓓ" -> "ⓓ" [] c = "Ⓔ" -> "ⓔ" [] c = "Ⓕ" -> "ⓕ" [] c = "Ⓖ" -> "ⓖ"
      [] c = "Ⓗ" -> "ⓗ" [] c = "Ⓘ" -> "ⓘ" [] c = "Ⓙ" -> "ⓙ" [] c = "Ⓚ" -> "ⓚ"
      [] c = "Ⓛ" -> "ⓛ" [] c = "Ⓜ" -> "ⓜ" [] c = "Ⓝ" -> "ⓝ" [] c = "Ⓞ" -> "ⓞ"
      [] c = "Ⓟ" -> "ⓟ" [] c = "Ⓠ" -> "ⓠ" [] c = "Ⓡ" -> "ⓡ" [] c = "Ⓢ" -> "ⓢ"
      [] c = "Ⓣ" -> "ⓣ" [] c = "Ⓤ" -> "ⓤ" [] c = "Ⓥ" -> "ⓥ" [] c = "Ⓦ" -> "ⓦ"
      [] c = "Ⓧ" -> "ⓧ" [] c = "Ⓨ" -> "ⓨ" [] c = "Ⓩ" -> "ⓩ" [] c = "Ⲁ" -> "ⲁ"
      [] c = "Ⲃ" -> "ⲃ" [] c = "Ⲅ" -> "ⲅ" [] c = "Ⲇ" -> "ⲇ" [] c = "Ⲉ" -> "ⲉ"
      [] c = "Ⲋ" -> "ⲋ" [] c = "Ⲍ" -> "ⲍ" [] c = "Ⲏ" -> "ⲏ" [] c = "Ⲑ" -> "ⲑ"
      [] c = "Ⲓ" -> "ⲓ" [] c = "Ⲕ" -> "ⲕ" [] c = "Ⲗ" -> "ⲗ" [] c = "Ⲙ" -> "ⲙ"
      [] c = "Ⲛ" -> "ⲛ" [] c = "Ⲝ" -> "ⲝ" [] c = "Ⲟ" -> "ⲟ" [] c = "Ⲡ" -> "ⲡ"
      [] c = "Ⲣ" -> "ⲣ" [] c = "Ⲥ" -> "ⲥ" [] c = "Ⲧ" -> "ⲧ" [] c = "Ⲩ" -> "ⲩ"
      [] c = "Ⲫ" -> "ⲫ" [] c = "Ⲭ" -> "ⲭ" [] c = "Ⲯ" -> "ⲯ" [] c = "Ⲱ" -> "ⲱ"
      [] c = "Ⲳ" -> "ⲳ" [] c = "Ⲵ" -> "ⲵ" [] c = "Ⲷ" -> "ⲷ" [] c = "Ⲹ" -> "ⲹ"
      [] c = "Ⲻ" -> "ⲻ" [] c = "Ⲽ" -> "ⲽ" [] c = "Ⲿ" -> "ⲿ" [] c = "Ⳁ" -> "ⳁ"
      [] c = "Ⳃ" -> "ⳃ" [] c = "Ⳅ" -> "ⳅ" [] c = "Ⳇ" -> "ⳇ" [] c = "Ⳉ" -> "ⳉ"
      [] c = "Ⳋ" -> "ⳋ" [] c = "Ⳍ" -> "ⳍ" [] c = "Ⳏ" -> "ⳏ" [] c = "Ⳑ" -> "ⳑ"
      [] c = "Ⳓ" -> "ⳓ" [] c = "Ⳕ" -> "ⳕ" [] c = "Ⳗ" -> "ⳗ" [] c = "Ⳙ" -> "ⳙ"
      [] c = "Ⳛ" -> "ⳛ" [] c = "Ⳝ" -> "ⳝ" [] c = "Ⳟ" -> "ⳟ" [] c = "Ⳡ" -> "ⳡ"
      [] c = "Ⳣ" -> "ⳣ" [] c = "Ⳬ" -> "ⳬ" [] c = "Ⳮ" -> "ⳮ" [] c = "Ⳳ" -> "ⳳ"
      [] c = "Ꚁ" -> "ꚁ" [] c = "Ꚃ" -> "ꚃ" [] c = "Ꚅ" -> "ꚅ" [] c = "Ꚇ" -> "ꚇ"
      [] c = "Ꚉ" -> "ꚉ" [] c = "Ꚋ" -> "ꚋ" [] c = "Ꚍ" -> "ꚍ" [] c = "Ꚏ" -> "ꚏ"
      [] c = "Ꚑ" -> "ꚑ" [] c = "Ꚓ" -> "ꚓ" [] c = "Ꚕ" -> "ꚕ" [] c = "Ꚗ" -> "ꚗ"
      [] c = "Ꚙ" -> "ꚙ" [] c = "Ꚛ" -> "ꚛ" [] c = "Ꞁ" -> "ꞁ" [] c = "Ꞃ" -> "ꞃ"
      [] c = "Ꞅ" -> "ꞅ" [] c = "Ꞇ" -> "ꞇ" [] c = "Ꞌ" -> "ꞌ" [] c = "Ꞑ" -> "ꞑ"
      [] c = "Ꞓ" -> "ꞓ" [] c = "Ꞗ" -> "ꞗ" [] c = "Ꞙ" -> "ꞙ" [] c = "Ꞛ" -> "ꞛ"
      [] c = "Ꞝ" -> "ꞝ" [] c = "Ꞟ" -> "ꞟ" [] c = "Ꞡ" -> "ꞡ" [] c = "Ꞣ" -> "ꞣ"
      [] c = "Ꞥ" -> "ꞥ" [] c = "Ꞧ" -> "ꞧ" [] c = "Ꞩ" -> "ꞩ" [] c = "Ʞ" -> "ʞ"
      [] c = "Ʇ" -> "ʇ" [] c = "Ʝ" -> "ʝ" [] c = "Ꞵ" -> "ꞵ" [] c = "Ꞷ" -> "ꞷ"
      [] c = "Ꞹ" -> "ꞹ" [] c = "Ꞻ" -> "ꞻ" [] c = "Ꞽ" -> "ꞽ" [] c = "Ꞿ" -> "ꞿ"
      [] c = "Ꟁ" -> "ꟁ" [] c = "Ꟃ" -> "ꟃ" [] c = "Ꞔ" -> "ꞔ" [] c = "Ʂ" -> "ʂ"
      [] c = "Ᶎ" -> "ᶎ" [] c = "Ꟈ" -> "ꟈ" [] c = "Ꟊ" -> "ꟊ" [] c = "Ꟑ" -> "ꟑ"
      [] c = "Ꟗ" -> "ꟗ" [] c = "Ꟙ" -> "ꟙ" [] c = "Ꟶ" -> "ꟶ"
      [] OTHER -> (CASE c \notin LowerOutside -> c)

\* The cased characters (lower case, upper case or title case) that are not
\* case-ignorable
CasedLetters ==
    {"A", "B", "C", "D", "E", "F", "G", "H", "I", "J", "K", "L", "M", "N",
     "O", "P", "Q", "R", "S", "T", "U", "V", "W", "X", "Y", "Z", "a", "b",
     "c", "d", "e", "f", "g", "h", "i", "j", "k", "l", "m", "n", "o", "p",
     "q", "r", "s", "t", "u", "v", "w", "x", "y", "z", "ª", "µ", "º", "À",
     "Á", "Â", "Ã", "Ä", "Å", "Æ", "Ç", "È", "É", "Ê", "Ë", "Ì", "Í", "Î",
     "Ï", "Ð", "Ñ", "Ò", "Ó", "Ô", "Õ", "Ö", "Ø", "Ù", "Ú", "Û", "Ü", "Ý",
     "Þ", "ß", "à", "á", "â", "ã", "ä", "å", "æ", "ç", "è", "é", "ê", "ë",
     "ì", "í", "î", "ï", "ð", "ñ", "ò", "ó", "ô", "õ", "ö", "ø", "ù", "ú",
     "û", "ü", "ý", "þ", "ÿ", "ƀ", "Ɓ", "Ƃ", "ƃ", "Ƅ", "ƅ", "Ɔ", "Ƈ", "ƈ",
     "Ɖ", "Ɗ", "Ƌ", "ƌ", "ƍ", "Ǝ", "Ə", "Ɛ", "Ƒ", "ƒ", "Ɠ", "Ɣ", "ƕ", "Ɩ",
     "Ɨ", "Ƙ", "ƙ", "ƚ", "ƛ", "Ɯ", "Ɲ", "ƞ", "Ɵ", "Ơ", "ơ", "Ƣ", "ƣ", "Ƥ",
     "ƥ", "Ʀ", "Ƨ", "ƨ", "Ʃ", "ƪ", "ƫ", "Ƭ", "ƭ", "Ʈ", "Ư", "ư", "Ʊ", "Ʋ",
     "Ƴ", "ƴ", "Ƶ", "ƶ", "Ʒ", "Ƹ", "ƹ", "ƺ", "Ƽ", "ƽ", "ƾ", "ƿ", "Ǆ", "ǅ",
     "ǆ", "Ǉ", "ǈ", "ǉ", "Ǌ", "ǋ", "ǌ", "Ǎ", "ǎ", "Ǐ", "ǐ", "Ǒ", "ǒ", "Ǔ",
     "ǔ", "Ǖ", "ǖ", "Ǘ", "ǘ", "Ǚ", "ǚ", "Ǜ", "ǜ", "ǝ", "Ǟ", "ǟ", "Ǡ", "ǡ",
     "Ǣ", "ǣ", "Ǥ", "ǥ", "Ǧ", "ǧ", "Ǩ", "ǩ", "Ǫ", "ǫ", "Ǭ", "ǭ", "Ǯ", "ǯ",
     "ǰ", "Ǳ", "ǲ", "ǳ", "Ǵ", "ǵ", "Ƕ", "Ƿ", "Ǹ", "ǹ", "Ǻ", "ǻ", "Ǽ", "ǽ",
     "Ǿ", "ǿ", "ʀ", "ʁ", "ʂ", "ʃ", "ʄ", "ʅ", "ʆ", "ʇ", "ʈ", "ʉ", "ʊ", "ʋ",
     "ʌ", "ʍ", "ʎ", "ʏ", "ʐ", "ʑ", "ʒ", "ʓ", "ʕ", "ʖ", "ʗ", "ʘ", "ʙ", "ʚ",
     "ʛ", "ʜ", "ʝ", "ʞ", "ʟ", "ʠ", "ʡ", "ʢ", "ʣ", "ʤ", "ʥ", "ʦ", "ʧ", "ʨ",
     "ʩ", "ʪ", "ʫ", "ʬ", "ʭ", "ʮ", "ʯ", "Ά", "Έ", "Ή", "Ί", "Ό", "Ύ", "Ώ",
     "ΐ", "Α", "Β", "Γ", "Δ", "Ε", "Ζ", "Η", "Θ", "Ι", "Κ", "Λ", "Μ", "Ν",
     "Ξ", "Ο", "Π", "Ρ", "Σ", "Τ", "Υ", "Φ", "Χ", "Ψ", "Ω", "Ϊ", "Ϋ", "ά",
     "έ", "ή", "ί", "ΰ", "α", "β", "γ", "δ", "ε", "ζ", "η", "θ", "ι", "κ",
     "λ", "μ", "ν", "ξ", "ο", "π", "ρ", "ς", "σ", "τ", "υ", "φ", "χ", "ψ",
     "ω", "ϊ", "ϋ", "ό", "ύ", "ώ", "Ϗ", "ϐ", "ϑ", "ϒ", "ϓ", "ϔ", "ϕ", "ϖ",
     "ϗ", "Ϙ", "ϙ", "Ϛ", "ϛ", "Ϝ", "ϝ", "Ϟ", "ϟ", "Ϡ", "ϡ", "Ϣ", "ϣ", "Ϥ",
     "ϥ", "Ϧ", "ϧ", "Ϩ", "ϩ", "Ϫ", "ϫ", "Ϭ", "ϭ", "Ϯ", "ϯ", "ϰ", "ϱ", "ϲ",
     "ϳ", "ϴ", "ϵ", "Ϸ", "ϸ", "Ϲ", "Ϻ", "ϻ", "ϼ", "Ͻ", "Ͼ", "Ͽ", "Ҁ", "ҁ",
     "Ҋ", "ҋ", "Ҍ", "ҍ", "Ҏ", "ҏ", "Ґ", "ґ", "Ғ", "ғ", "Ҕ", "ҕ", "Җ", "җ",
     "Ҙ", "ҙ", "Қ", "қ", "Ҝ", "ҝ", "Ҟ", "ҟ", "Ҡ", "ҡ", "Ң", "ң", "Ҥ", "ҥ",
     "Ҧ", "ҧ", "Ҩ", "ҩ", "Ҫ", "ҫ", "Ҭ", "ҭ", "Ү", "ү", "Ұ", "ұ", "Ҳ", "ҳ",
     "Ҵ", "ҵ", "Ҷ", "ҷ", "Ҹ", "ҹ", "Һ", "һ", "Ҽ", "ҽ", "Ҿ", "ҿ", "Ӏ", "Ӂ",
     "ӂ", "Ӄ", "ӄ", "Ӆ", "ӆ", "Ӈ", "ӈ", "Ӊ", "ӊ", "Ӌ", "ӌ", "Ӎ", "ӎ", "ӏ",
     "Ӑ", "ӑ", "Ӓ", "ӓ", "Ӕ", "ӕ", "Ӗ", "ӗ", "Ә", "ә", "Ӛ", "ӛ", "Ӝ", "ӝ",
     "Ӟ", "ӟ", "Ӡ", "ӡ", "Ӣ", "ӣ", "Ӥ", "ӥ", "Ӧ", "ӧ", "Ө", "ө", "Ӫ", "ӫ",
     "Ӭ", "ӭ", "Ӯ", "ӯ", "Ӱ", "ӱ", "Ӳ", "ӳ", "Ӵ", "ӵ", "Ӷ", "ӷ", "Ӹ", "ӹ",
     "Ӻ", "ӻ", "Ӽ", "ӽ", "Ӿ", "ӿ", "ր", "ց", "ւ", "փ", "ք", "օ", "ֆ", "և",
     "ֈ", "Ⴀ", "Ⴁ", "Ⴂ", "Ⴃ", "Ⴄ", "Ⴅ", "Ⴆ", "Ⴇ", "Ⴈ", "Ⴉ", "Ⴊ", "Ⴋ", "Ⴌ",
     "Ⴍ", "Ⴎ", "Ⴏ", "Ⴐ", "Ⴑ", "Ⴒ", "Ⴓ", "Ⴔ", "Ⴕ", "Ⴖ", "Ⴗ", "Ⴘ", "Ⴙ", "Ⴚ",
     "Ⴛ", "Ⴜ", "Ⴝ", "Ⴞ", "Ⴟ", "Ⴠ", "Ⴡ", "Ⴢ", "Ⴣ", "Ⴤ", "Ⴥ", "Ⴧ", "Ⴭ", "ა",
     "ბ", "გ", "დ", "ე", "ვ", "ზ", "თ", "ი", "კ", "ლ", "მ", "ნ", "ო", "პ",
     "ჟ", "რ", "ს", "ტ", "უ", "ფ", "ქ", "ღ", "ყ", "შ", "ჩ", "ც", "ძ", "წ",
     "ჭ", "ხ", "ჯ", "ჰ", "ჱ", "ჲ", "ჳ", "ჴ", "ჵ", "ჶ", "ჷ", "ჸ", "ჹ", "ჺ",
     "ჽ", "ჾ", "ჿ", "Ꭰ", "Ꭱ", "Ꭲ", "Ꭳ", "Ꭴ", "Ꭵ", "Ꭶ", "Ꭷ", "Ꭸ", "Ꭹ", "Ꭺ",
     "Ꭻ", "Ꭼ", "Ꭽ", "Ꭾ", "Ꭿ", "Ꮀ", "Ꮁ", "Ꮂ", "Ꮃ", "Ꮄ", "Ꮅ", "Ꮆ", "Ꮇ", "Ꮈ",
     "Ꮉ", "Ꮊ", "Ꮋ", "Ꮌ", "Ꮍ", "Ꮎ", "Ꮏ", "Ꮐ", "Ꮑ", "Ꮒ", "Ꮓ", "Ꮔ", "Ꮕ", "Ꮖ",
     "Ꮗ", "Ꮘ", "Ꮙ", "Ꮚ", "Ꮛ", "Ꮜ", "Ꮝ", "Ꮞ", "Ꮟ", "Ꮠ", "Ꮡ", "Ꮢ", "Ꮣ", "Ꮤ",
     "Ꮥ", "Ꮦ", "Ꮧ", "Ꮨ", "Ꮩ", "Ꮪ", "Ꮫ", "Ꮬ", "Ꮭ", "Ꮮ", "Ꮯ", "Ꮰ", "Ꮱ", "Ꮲ",
     "Ꮳ", "Ꮴ", "Ꮵ", "Ꮶ", "Ꮷ", "Ꮸ", "Ꮹ", "Ꮺ", "Ꮻ", "Ꮼ", "Ꮽ", "Ꮾ", "Ꮿ", "Ᏸ",
     "Ᏹ", "Ᏺ", "Ᏻ", "Ᏼ", "Ᏽ", "ᏸ", "ᏹ", "ᏺ", "ᏻ", "ᏼ", "ᏽ", "ᲀ", "ᲁ", "ᲂ",
     "ᲃ", "ᲄ", "ᲅ", "ᲆ", "ᲇ", "ᲈ", "Ა", "Ბ", "Გ", "Დ", "Ე", "Ვ", "Ზ", "Თ",
     "Ი", "Კ", "Ლ", "Მ", "Ნ", "Ო", "Პ", "Ჟ", "Რ", "Ს", "Ტ", "Უ", "Ფ", "Ქ",
     "Ღ", "Ყ", "Შ", "Ჩ", "Ც", "Ძ", "Წ", "Ჭ", "Ხ", "Ჯ", "Ჰ", "Ჱ", "Ჲ", "Ჳ",
     "Ჴ", "Ჵ", "Ჶ", "Ჷ", "Ჸ", "Ჹ", "Ჺ", "Ჽ", "Ჾ", "Ჿ", "ᶀ", "ᶁ", "ᶂ", "ᶃ",
     "ᶄ", "ᶅ", "ᶆ", "ᶇ", "ᶈ", "ᶉ", "ᶊ", "ᶋ", "ᶌ", "ᶍ", "ᶎ", "ᶏ", "ᶐ", "ᶑ",
     "ᶒ", "ᶓ", "ᶔ", "ᶕ", "ᶖ", "ᶗ", "ᶘ", "ᶙ", "ᶚ", "Ẁ", "ẁ", "Ẃ", "ẃ", "Ẅ",
     "ẅ", "Ẇ", "ẇ", "Ẉ", "ẉ", "Ẋ", "ẋ", "Ẍ", "ẍ", "Ẏ", "ẏ", "Ẑ", "ẑ", "Ẓ",
     "ẓ", "Ẕ", "ẕ", "ẖ", "ẗ", "ẘ", "ẙ", "ẚ", "ẛ", "ẜ", "ẝ", "ẞ", "ẟ", "Ạ",
     "ạ", "Ả", "ả", "Ấ", "ấ", "Ầ", "ầ", "Ẩ", "ẩ", "Ẫ", "ẫ", "Ậ", "ậ", "Ắ",
     "ắ", "Ằ", "ằ", "Ẳ", "ẳ", "Ẵ", "ẵ", "Ặ", "ặ", "Ẹ", "ẹ", "Ẻ", "ẻ", "Ẽ",
     "ẽ", "Ế", "ế", "Ề", "ề", "Ể", "ể", "Ễ", "ễ", "Ệ", "ệ", "Ỉ", "ỉ", "Ị",
     "ị", "Ọ", "ọ", "Ỏ", "ỏ", "Ố", "ố", "Ồ", "ồ", "Ổ", "ổ", "Ỗ", "ỗ", "Ộ",
     "ộ", "Ớ", "ớ", "Ờ", "ờ", "Ở", "ở", "Ỡ", "ỡ", "Ợ", "ợ", "Ụ", "ụ", "Ủ",
     "ủ", "Ứ", "ứ", "Ừ", "ừ", "Ử", "ử", "Ữ", "ữ", "Ự", "ự", "Ỳ", "ỳ", "Ỵ",
     "ỵ", "Ỷ", "ỷ", "Ỹ", "ỹ", "Ỻ", "ỻ", "Ỽ", "ỽ", "Ỿ", "ỿ", "ᾀ", "ᾁ", "ᾂ",
     "ᾃ", "ᾄ", "ᾅ", "ᾆ", "ᾇ", "ᾈ", "ᾉ", "ᾊ", "ᾋ", "ᾌ", "ᾍ", "ᾎ", "ᾏ", "ᾐ",
     "ᾑ", "ᾒ", "ᾓ", "ᾔ", "ᾕ", "ᾖ", "ᾗ", "ᾘ", "ᾙ", "ᾚ", "ᾛ", "ᾜ", "ᾝ", "ᾞ",
     "ᾟ", "ᾠ", "ᾡ", "ᾢ", "ᾣ", "ᾤ", "ᾥ", "ᾦ", "ᾧ", "ᾨ", "ᾩ", "ᾪ", "ᾫ", "ᾬ",
     "ᾭ", "ᾮ", "ᾯ", "ᾰ", "ᾱ", "ᾲ", "ᾳ", "ᾴ", "ᾶ", "ᾷ", "Ᾰ", "Ᾱ", "Ὰ", "Ά",
     "ᾼ", "ι", "ῂ", "ῃ", "ῄ", "ῆ", "ῇ", "Ὲ", "Έ", "Ὴ", "Ή", "ῌ", "ῐ", "ῑ",
     "ῒ", "ΐ", "ῖ", "ῗ", "Ῐ", "Ῑ", "Ὶ", "Ί", "ῠ", "ῡ", "ῢ", "ΰ", "ῤ", "ῥ",
     "ῦ", "ῧ", "Ῠ", "Ῡ", "Ὺ", "Ύ", "Ῥ", "ῲ", "ῳ", "ῴ", "ῶ", "ῷ", "Ὸ", "Ό",
     "Ὼ", "Ώ", "ῼ", "Ↄ", "ↄ", "Ⓐ", "Ⓑ", "Ⓒ", "Ⓓ", "Ⓔ", "Ⓕ", "Ⓖ", "Ⓗ", "Ⓘ",
     "Ⓙ", "Ⓚ", "Ⓛ", "Ⓜ", "Ⓝ", "Ⓞ", "Ⓟ", "Ⓠ", "Ⓡ", "Ⓢ", "Ⓣ", "Ⓤ", "Ⓥ", "Ⓦ",
     "Ⓧ", "Ⓨ", "Ⓩ", "ⓐ", "ⓑ", "ⓒ", "ⓓ", "ⓔ", "ⓕ", "ⓖ", "ⓗ", "ⓘ", "ⓙ", "ⓚ",
     "ⓛ", "ⓜ", "ⓝ", "ⓞ", "ⓟ", "ⓠ", "ⓡ", "ⓢ", "ⓣ", "ⓤ", "ⓥ", "ⓦ", "ⓧ", "ⓨ",
     "ⓩ", "Ⲁ", "ⲁ", "Ⲃ", "ⲃ", "Ⲅ", "ⲅ", "Ⲇ", "ⲇ", "Ⲉ", "ⲉ", "Ⲋ", "ⲋ", "Ⲍ",
     "ⲍ", "Ⲏ", "ⲏ", "Ⲑ", "ⲑ", "Ⲓ", "ⲓ", "Ⲕ", "ⲕ", "Ⲗ", "ⲗ", "Ⲙ", "ⲙ", "Ⲛ",
     "ⲛ", "Ⲝ", "ⲝ", "Ⲟ", "ⲟ", "Ⲡ", "ⲡ", "Ⲣ", "ⲣ", "Ⲥ", "ⲥ", "Ⲧ", "ⲧ", "Ⲩ",
     "ⲩ", "Ⲫ", "ⲫ", "Ⲭ", "ⲭ", "Ⲯ", "ⲯ", "Ⲱ", "ⲱ", "Ⲳ", "ⲳ", "Ⲵ", "ⲵ", "Ⲷ",
     "ⲷ", "Ⲹ", "ⲹ", "Ⲻ", "ⲻ", "Ⲽ", "ⲽ", "Ⲿ", "ⲿ", "Ⳁ", "ⳁ", "Ⳃ", "ⳃ", "Ⳅ",
     "ⳅ", "Ⳇ", "ⳇ", "Ⳉ", "ⳉ", "Ⳋ", "ⳋ", "Ⳍ", "ⳍ", "Ⳏ", "ⳏ", "Ⳑ", "ⳑ", "Ⳓ",
     "ⳓ", "Ⳕ", "ⳕ", "Ⳗ", "ⳗ", "Ⳙ", "ⳙ", "Ⳛ", "ⳛ", "Ⳝ", "ⳝ", "Ⳟ", "ⳟ", "Ⳡ",
     "ⳡ", "Ⳣ", "ⳣ", "ⳤ", "Ⳬ", "ⳬ", "Ⳮ", "ⳮ", "Ⳳ", "ⳳ", "Ꚁ", "ꚁ", "Ꚃ", "ꚃ",
     "Ꚅ", "ꚅ", "Ꚇ", "ꚇ", "Ꚉ", "ꚉ", "Ꚋ", "ꚋ", "Ꚍ", "ꚍ", "Ꚏ", "ꚏ", "Ꚑ", "ꚑ",
     "Ꚓ", "ꚓ", "Ꚕ", "ꚕ", "Ꚗ", "ꚗ", "Ꚙ", "ꚙ", "Ꚛ", "ꚛ", "Ꞁ", "ꞁ", "Ꞃ", "ꞃ",
     "Ꞅ", "ꞅ", "Ꞇ", "ꞇ", "Ꞌ", "ꞌ", "Ɥ", "ꞎ", "Ꞑ", "ꞑ", "Ꞓ", "ꞓ", "ꞔ", "ꞕ",
     "Ꞗ", "ꞗ", "Ꞙ", "ꞙ", "Ꞛ", "ꞛ", "Ꞝ", "ꞝ", "Ꞟ", "ꞟ", "Ꞡ", "ꞡ", "Ꞣ", "ꞣ",
     "Ꞥ", "ꞥ", "Ꞧ", "ꞧ", "Ꞩ", "ꞩ", "Ɦ", "Ɜ", "Ɡ", "Ɬ", "Ɪ", "ꞯ", "Ʞ", "Ʇ",
     "Ʝ", "Ꭓ", "Ꞵ", "ꞵ", "Ꞷ", "ꞷ", "Ꞹ", "ꞹ", "Ꞻ", "ꞻ", "Ꞽ", "ꞽ", "Ꞿ", "ꞿ",
     "Ꟁ", "ꟁ", "Ꟃ", "ꟃ", "Ꞔ", "Ʂ", "Ᶎ", "Ꟈ", "ꟈ", "Ꟊ", "ꟊ", "Ꟑ", "ꟑ", "ꟓ",
     "ꟕ", "Ꟗ", "ꟗ", "Ꟙ", "ꟙ", "Ꟶ", "ꟶ", "ꟺ", "ꮀ", "ꮁ", "ꮂ", "ꮃ", "ꮄ", "ꮅ",
     "ꮆ", "ꮇ", "ꮈ", "ꮉ", "ꮊ", "ꮋ", "ꮌ", "ꮍ", "ꮎ", "ꮏ", "ꮐ", "ꮑ", "ꮒ", "ꮓ",
     "ꮔ", "ꮕ", "ꮖ", "ꮗ", "ꮘ", "ꮙ", "ꮚ", "ꮛ", "ꮜ", "ꮝ", "ꮞ", "ꮟ", "ꮠ", "ꮡ",
     "ꮢ", "ꮣ", "ꮤ", "ꮥ", "ꮦ", "ꮧ", "ꮨ", "ꮩ", "ꮪ", "ꮫ", "ꮬ", "ꮭ", "ꮮ", "ꮯ",
     "ꮰ", "ꮱ", "ꮲ", "ꮳ", "ꮴ", "ꮵ", "ꮶ", "ꮷ", "ꮸ", "ꮹ", "ꮺ", "ꮻ", "ꮼ", "ꮽ",
     "ꮾ", "ꮿ"}

\* The case-ignorable characters: marks, modifiers and the punctuation that
\* may stand inside a word
CaseIgnorable ==
    {"'", ".", ":", "^", "¨", "­", "¯", "´", "·", "¸", "ʰ", "ʱ", "ʲ", "ʳ",
     "ʴ", "ʵ", "ʶ", "ʷ", "ʸ", "ʹ", "ʺ", "ʻ", "ʼ", "ʽ", "ʾ", "ʿ", "ˀ", "ˁ",
     "˂", "˃", "˄", "˅", "ˆ", "ˇ", "ˈ", "ˉ", "ˊ", "ˋ", "ˌ", "ˍ", "ˎ", "ˏ",
     "ː", "ˑ", "˒", "˓", "˔", "˕", "˖", "˗", "˘", "˙", "˚", "˛", "˜", "˝",
     "˞", "˟", "ˠ", "ˡ", "ˢ", "ˣ", "ˤ", "˥", "˦", "˧", "˨", "˩", "˪", "˫",
     "ˬ", "˭", "ˮ", "˯", "˰", "˱", "˲", "˳", "˴", "˵", "˶", "˷", "˸", "˹",
     "˺", "˻", "˼", "˽", "˾", "˿", "΄", "΅", "·", "҃", "҄", "҅", "҆", "҇",
     "҈", "҉", "֑", "֒", "֓", "֔", "֕", "֖", "֗", "֘", "֙", "֚", "֛", "֜",
     "֝", "֞", "֟", "֠", "֡", "֢", "֣", "֤", "֥", "֦", "֧", "֨", "֩", "֪",
     "֫", "֬", "֭", "֮", "֯", "ְ", "ֱ", "ֲ", "ֳ", "ִ", "ֵ", "ֶ", "ַ", "ָ",
     "ֹ", "ֺ", "ֻ", "ּ", "ֽ", "ֿ", "ׁ", "ׂ", "ׄ", "ׅ", "ׇ", "״", "ۖ", "ۗ",
     "ۘ", "ۙ", "ۚ", "ۛ", "ۜ", "۝", "۟", "۠", "ۡ", "ۢ", "ۣ", "ۤ", "ۥ", "ۦ",
     "ۧ", "ۨ", "۪", "۫", "۬", "ۭ", "ަ", "ާ", "ި", "ީ", "ު", "ޫ", "ެ", "ޭ",
     "ޮ", "ޯ", "ް", "߫", "߬", "߭", "߮", "߯", "߰", "߱", "߲", "߳", "ߴ", "ߵ",
     "ߺ", "߽", "࢈", "࢐", "࢑", "࢘", "࢙", "࢚", "࢛", "࢜", "࢝", "࢞", "࢟", "ࣉ",
     "࣊", "࣋", "࣌", "࣍", "࣎", "࣏", "࣐", "࣑", "࣒", "࣓", "ࣔ", "ࣕ", "ࣖ", "ࣗ",
     "ࣘ", "ࣙ", "ࣚ", "ࣛ", "ࣜ", "ࣝ", "ࣞ", "ࣟ", "࣠", "࣡", "࣢", "ࣣ", "ࣤ", "ࣥ",
     "ࣦ", "ࣧ", "ࣨ", "ࣩ", "࣪", "࣫", "࣬", "࣭", "࣮", "࣯", "ࣰ", "ࣱ", "ࣲ", "ࣳ",
     "ࣴ", "ࣵ", "ࣶ", "ࣷ", "ࣸ", "ࣹ", "ࣺ", "ࣻ", "ࣼ", "ࣽ", "ࣾ", "ࣿ", "ঁ", "়",
     "ু", "ূ", "ৃ", "ৄ", "্", "ৢ", "ৣ", "৾", "ઁ", "ં", "઼", "ુ", "ૂ", "ૃ",
     "ૄ", "ૅ", "ે", "ૈ", "્", "ૢ", "ૣ", "ૺ", "ૻ", "ૼ", "૽", "૾", "૿", "ஂ",
     "ீ", "்", "ಁ", "಼", "ಿ", "ೆ", "ೌ", "್", "ೢ", "ೣ", "ඁ", "්", "ි", "ී",
     "ු", "ූ", "ັ", "ິ", "ີ", "ຶ", "ື", "ຸ", "ູ", "຺", "ົ", "ຼ", "ໆ", "່",
     "້", "໊", "໋", "໌", "ໍ", "ྀ", "ཱྀ", "ྂ", "ྃ", "྄", "྆", "྇", "ྍ", "ྎ",
     "ྏ", "ྐ", "ྑ", "ྒ", "ྒྷ", "ྔ", "ྕ", "ྖ", "ྗ", "ྙ", "ྚ", "ྛ", "ྜ", "ྜྷ",
     "ྞ", "ྟ", "ྠ", "ྡ", "ྡྷ", "ྣ", "ྤ", "ྥ", "ྦ", "ྦྷ", "ྨ", "ྩ", "ྪ", "ྫ",
     "ྫྷ", "ྭ", "ྮ", "ྯ", "ྰ", "ྱ", "ྲ", "ླ", "ྴ", "ྵ", "ྶ", "ྷ", "ྸ", "ྐྵ",
     "ྺ", "ྻ", "ྼ", "࿆", "ႂ", "ႅ", "ႆ", "ႍ", "ႝ", "ჼ", "឴", "឵", "ិ", "ី",
     "ឹ", "ឺ", "ុ", "ូ", "ួ", "ំ", "៉", "៊", "់", "៌", "៍", "៎", "៏", "័",
     "៑", "្", "៓", "ៗ", "៝", "ᢅ", "ᢆ", "ᢩ", "ᪧ", "᪰", "᪱", "᪲", "᪳", "᪴",
     "᪵", "᪶", "᪷", "᪸", "᪹", "᪺", "᪻", "᪼", "᪽", "᪾", "ᪿ", "ᫀ", "᫁", "᫂",
     "᫃", "᫄", "᫅", "᫆", "᫇", "᫈", "᫉", "᫊", "᫋", "ᫌ", "ᫍ", "ᫎ", "ᮀ", "ᮁ",
     "ᮢ", "ᮣ", "ᮤ", "ᮥ", "ᮨ", "ᮩ", "᮫", "ᮬ", "ᮭ", "᯦", "ᯨ", "ᯩ", "ᯭ", "ᯯ",
     "ᯰ", "ᯱ", "᳐", "᳑", "᳒", "᳔", "᳕", "᳖", "᳗", "᳘", "᳙", "᳚", "᳛", "᳜",
     "᳝", "᳞", "᳟", "᳠", "᳢", "᳣", "᳤", "᳥", "᳦", "᳧", "᳨", "᳭", "᳴", "᳸",
     "᳹", "ᶛ", "ᶜ", "ᶝ", "ᶞ", "ᶟ", "ᶠ", "ᶡ", "ᶢ", "ᶣ", "ᶤ", "ᶥ", "ᶦ", "ᶧ",
     "ᶨ", "ᶩ", "ᶪ", "ᶫ", "ᶬ", "ᶭ", "ᶮ", "ᶯ", "ᶰ", "ᶱ", "ᶲ", "ᶳ", "ᶴ", "ᶵ",
     "ᶶ", "ᶷ", "ᶸ", "ᶹ", "ᶺ", "ᶻ", "ᶼ", "ᶽ", "ᶾ", "ᶿ", "᷀", "᷁", "᷂", "᷃",
     "᷄", "᷅", "᷆", "᷇", "᷈", "᷉", "᷊", "᷋", "᷌", "᷍", "᷎", "᷏", "᷐", "᷑",
     "᷒", "ᷓ", "ᷔ", "ᷕ", "ᷖ", "ᷗ", "ᷘ", "ᷙ", "ᷚ", "ᷛ", "ᷜ", "ᷝ", "ᷞ", "ᷟ",
     "ᷠ", "ᷡ", "ᷢ", "ᷣ", "ᷤ", "ᷥ", "ᷦ", "ᷧ", "ᷨ", "ᷩ", "ᷪ", "ᷫ", "ᷬ", "ᷭ",
     "ᷮ", "ᷯ", "ᷰ", "ᷱ", "ᷲ", "ᷳ", "ᷴ", "᷵", "᷶", "᷷", "᷸", "᷹", "᷺", "᷻",
     "᷼", "᷽", "᷾", "᷿", "᾽", "᾿", "῀", "῁", "῍", "῎", "῏", "῝", "῞", "῟",
     "῭", "΅", "`", "´", "῾", "ₐ", "ₑ", "ₒ", "ₓ", "ₔ", "ₕ", "ₖ", "ₗ", "ₘ",
     "ₙ", "ₚ", "ₛ", "ₜ", "⃐", "⃑", "⃒", "⃓", "⃔", "⃕", "⃖", "⃗", "⃘", "⃙",
     "⃚", "⃛", "⃜", "⃝", "⃞", "⃟", "⃠", "⃡", "⃢", "⃣", "⃤", "⃥", "⃦", "⃧",
     "⃨", "⃩", "⃪", "⃫", "⃬", "⃭", "⃮", "⃯", "⃰", "⳯", "⳰", "⳱", "ⷠ", "ⷡ",
     "ⷢ", "ⷣ", "ⷤ", "ⷥ", "ⷦ", "ⷧ", "ⷨ", "ⷩ", "ⷪ", "ⷫ", "ⷬ", "ⷭ", "ⷮ", "ⷯ",
     "ⷰ", "ⷱ", "ⷲ", "ⷳ", "ⷴ", "ⷵ", "ⷶ", "ⷷ", "ⷸ", "ⷹ", "ⷺ", "ⷻ", "ⷼ", "ⷽ",
     "ⷾ", "ⷿ", "゙", "゚", "゛", "゜", "ゝ", "ゞ", "ー", "ヽ", "ヾ", "ꓸ", "ꓹ", "ꓺ",
     "ꓻ", "ꓼ", "ꓽ", "ꚜ", "ꚝ", "ꚞ", "ꚟ", "꛰", "꛱", "ꞈ", "꞉", "꞊", "ꟲ", "ꟳ",
     "ꟴ", "ꟸ", "ꟹ", "꣄", "ꣅ", "꣠", "꣡", "꣢", "꣣", "꣤", "꣥", "꣦", "꣧", "꣨",
     "꣩", "꣪", "꣫", "꣬", "꣭", "꣮", "꣯", "꣰", "꣱", "ꣿ", "ꦀ", "ꦁ", "ꦂ", "꦳",
     "ꦶ", "ꦷ", "ꦸ", "ꦹ", "ꦼ", "ꦽ", "ꧏ", "ꧥ", "ꧦ", "ꪰ", "ꪲ", "ꪳ", "ꪴ", "ꪷ",
     "ꪸ", "ꪾ", "꪿", "꫁", "ꫝ", "ꫬ", "ꫭ", "ꫳ", "ꫴ", "꫶", "ꯥ", "ꯨ", "꯭", "﮲",
     "﮳", "﮴", "﮵", "﮶", "﮷", "﮸", "﮹", "﮺", "﮻", "﮼", "﮽", "﮾", "﮿", "﯀",
     "﯁", "﯂", "﻿", "ﾞ", "ﾟ", "￣", "￹", "￺", "￻"}

\* The capital sigma at position i ends a word: the nearest character before
\* it that is not case-ignorable is cased, and there is no character after it
\* that is not case-ignorable, or the nearest one is not cased
final_sigma(chars, i) ==
    LET before == { j \in 1..(i - 1) : chars[j] \notin CaseIgnorable }
        after == { j \in (i + 1)..Len(chars) : chars[j] \notin CaseIgnorable }
        last_before == CHOOSE j \in before : \A k \in before : k <= j
        first_after == CHOOSE j \in after : \A k \in after : j <= k
    IN  /\ before # {}
        /\ chars[last_before] \in CasedLetters
        /\ after = {} \/ chars[first_after] \notin CasedLetters

\* str.lower: each character gives its lower case, the capital sigma that
\* ends a word the final sigma
lower(chars) ==
    [i \in 1..Len(chars) |->
        IF chars[i] = "Σ" /\ final_sigma(chars, i) THEN "ς" ELSE lower_char(chars[i])]

\* Lines 350-370
normalize_chamber(chamber) ==
    IF chamber = None \/ chamber = Some(<<>>) THEN None
    ELSE LET lowered == join(lower(CHOOSE c \in chamber : TRUE))
         IN  IF lowered \in {"house", "h"} THEN Some("House")
             ELSE IF lowered \in {"senate", "s"} THEN Some("Senate")
             ELSE None

\* Lines 329-348
generate_output_filename(congress, chamber, state) ==
    "members_" \o str_congress(congress) \o "_"
      \o (IF chamber \in {None, Some("")} THEN "All" ELSE CHOOSE c \in chamber : TRUE)
      \o (IF state \in {None, Some(<<>>)} THEN ""
          ELSE "_" \o join(upper(CHOOSE c \in state : TRUE)))
      \o ".csv"

\* A .env file: the value it gives CONGRESS_API_KEY, None when it does not
\* define the variable; and no file
EnvFile(key) == [exists |-> TRUE, key |-> key]
NoFile == [exists |-> FALSE, key |-> None]

\* The two places a .env file is looked for.  cwd is .env in the working
\* directory, which Path('.env').exists() tests (line 106).  script is the
\* file load_dotenv() reads (line 108): with no path given it takes the first
\* .env found from the directory of get_congress_members.py upwards
\* (find_dotenv), wherever the program is run from.  Run from its own
\* directory, the two are one file.
Dotenv(cwd, script) == [cwd |-> cwd, script |-> script]

\* The program run from the directory that holds it
SameDirectory(file) == Dotenv(file, file)

\* load_dotenv(): sets the variable from the file it finds unless the
\* environment already holds it (override=False)
load_dotenv(dotenv_, environ_) ==
    IF environ_ = None /\ dotenv_.script.exists THEN dotenv_.script.key ELSE environ_

\* Lines 101-110: the key returned and os.environ after the call
get_api_key(cmd_line_key, dotenv_, environ_) ==
    IF cmd_line_key \notin {None, Some("")}
    THEN [key |-> cmd_line_key, environ |-> environ_]
    ELSE LET loaded == IF dotenv_.cwd.exists THEN load_dotenv(dotenv_, environ_)
                       ELSE environ_
         IN  [key |-> loaded, environ |-> loaded]

\* The attributes of the Namespace parse_args returns (lines 535-551)
NamespaceAttributes ==
    {"congress", "which", "chamber", "state", "output", "api_key", "debug"}

\* A command line: the values of the options, and under order the two options
\* of the mutually exclusive group (lines 534-544) in the order the command
\* line gives them, --congress before --which here
MainArgs(congress, which, chamber, state, output, key, debug) ==
    [congress |-> congress, which |-> which, chamber |-> chamber, state |-> state,
     output |-> output, api_key |-> key, debug |-> debug,
     order |-> <<"congress", "which">>]

\* The command line with --which before --congress
WhichFirst(a) == [a EXCEPT !.order = <<"which", "congress">>]

\* What parse_args (line 553) rejects: it takes the options in the order of
\* the command line, and for each converts the value (type=int) before it
\* looks for an option of the group given earlier.  "" when it rejects nothing.
parse_error(a) ==
    LET first == a.order[1]
        second == a.order[2]
        invalid(option) ==
            "argument --" \o option \o ": invalid int value: '" \o a[option].s \o "'"
    IN  IF a[first].t = "str" THEN invalid(first)
        ELSE IF a[second].t = "str" THEN invalid(second)
        ELSE IF a[first].t = "int" /\ a[second].t = "int"
        THEN "argument --" \o second \o ": not allowed with argument --" \o first
        ELSE ""

\* What parse_args prints to standard error when it rejects the command line
\* (it then exits with status 2): the usage of the parser built at lines
\* 519-551, for the program name get_congress_members.py on a terminal of 80
\* columns, and the error
parser_error(message) ==
    <<"usage: get_congress_members.py [-h] [--congress CONGRESS | --which WHICH]",
      "                               [--chamber CHAMBER] [--state STATE]",
      "                               [--output OUTPUT] [--api-key API_KEY] [--debug]",
      "get_congress_members.py: error: " \o message>>

\* main leaves with the status, after printing the lines to standard error
\* and to standard output
MainExit(status, out, err) ==
    /\ main_pc' = "exited"
    /\ exit_status' = Some(status)
    /\ stdout' = stdout \o out
    /\ stderr' = stderr \o err

\* Lines 553-590: main from parse_args up to the call of
\* get_congress_members
MainStart ==
    /\ main_pc = "start"
    /\ LET year == args.which.n
           chamber_given == args.chamber \notin {None, Some(<<>>)}
           normalized_chamber == normalize_chamber(args.chamber)
           found == get_api_key(args.api_key, dotenv, environ)
       IN  IF parse_error(args) # ""
           THEN /\ MainExit(2, <<>>, parser_error(parse_error(args)))
                /\ UNCHANGED <<fetchVars, environ, api_key, resolved>>
           ELSE IF args.which.t = "int" /\ year # 0
           THEN /\ IF ~(1789 <= year /\ year <= today_year + 1)
                   THEN MainExit(1, <<>>,
                            <<"Error: Invalid year " \o Str(year)
                                \o ". Must be between 1789 and " \o Str(today_year + 1)>>)
                   ELSE MainExit(0, <<"", "Congress in session during " \o Str(year) \o ":",
                                      "  " \o format_congress_info(year)>>, <<>>)
                /\ UNCHANGED <<fetchVars, environ, api_key, resolved>>
           ELSE IF chamber_given /\ normalized_chamber = None
           THEN /\ MainExit(1, <<>>,
                       <<"Error: Invalid chamber specification: "
                           \o join(CHOOSE c \in args.chamber : TRUE)
                           \o ". Use 'House'/'Senate' or 'H'/'S'.">>)
                /\ UNCHANGED <<fetchVars, environ, api_key, resolved>>
           ELSE /\ resolved' = TRUE
                /\ api_key' = found.key
                /\ environ' = found.environ
                /\ IF found.key \in {None, Some("")}
                   THEN /\ MainExit(1, <<>>,
                               <<"Error: API key must be provided via --api-key argument, "
                                   \o ".env file, or CONGRESS_API_KEY environment variable">>)
                        /\ UNCHANGED fetchVars
                   ELSE /\ main_pc' = "fetch"
                        /\ pc' = "start"
                        /\ congress_arg' = IF args.congress.t = "int"
                                           THEN Some(args.congress.n) ELSE None
                        /\ chamber_arg' = IF chamber_given THEN normalized_chamber
                                          ELSE IF args.chamber = None THEN None
                                          ELSE Some("")
                        /\ state_arg' = args.state
                        /\ state_code' = args.state
                        /\ debug_arg' = args.debug
                        /\ UNCHANGED <<entry, offset, all_members, requests, responses,
                                       outcome, stdout, stderr, exit_status>>
    /\ UNCHANGED <<callVars, dirs, files, args, dotenv, today_year>>

\* Lines 592-603: main once get_congress_members has returned or raised
MainFinish ==
    /\ main_pc = "fetch"
    /\ pc \in {"done", "raised"}
    /\ IF pc = "raised"
       THEN /\ MainExit(1, <<>>, <<"Error: " \o outcome.message>>)
            /\ UNCHANGED <<dirs, files>>
       ELSE IF "stream" \notin NamespaceAttributes
       THEN /\ MainExit(1, <<>>,
                   <<"Error: 'Namespace' object has no attribute 'stream'">>)
            /\ UNCHANGED <<dirs, files>>
       ELSE LET output == IF args.output = None
                          THEN OutputPath(FALSE,
                                   <<generate_output_filename(congress_arg, chamber_arg,
                                                              state_arg)>>)
                          ELSE CHOOSE p \in args.output : TRUE
                effect == write_to_csv(outcome.members, output, outcome.stats, dirs,
                                       files, NoFault)
            IN  /\ dirs' = effect.dirs
                /\ files' = effect.files
                /\ IF effect.result.raised # ""
                   THEN MainExit(1, effect.out,
                                 effect.err \o <<"Error: " \o effect.result.value.s>>)
                   ELSE MainExit(0, effect.out, effect.err)
    /\ UNCHANGED <<callVars, fetchVars, args, environ, dotenv, today_year, api_key,
                   resolved>>

-----------------------------------------------------------------------------
(* SpecMain: one run of main per behaviour, on a command line and in an      *)
(* environment drawn from bounded sets                                       *)

EnvKey == Some("env_key")
DotenvKey == Some("dotenv_key")
ArgKey == Some("test_api_key_12345")

\* The environments: the variable unset, empty or set; run from the
\* program's directory with no .env file, one without the key or one with it,
\* and run from another directory, the .env file with the key in the working
\* directory alone or beside the program alone
Environments ==
    [environ : {None, Some(""), EnvKey},
     dotenv : {SameDirectory(NoFile), SameDirectory(EnvFile(None)),
               SameDirectory(EnvFile(DotenvKey)),
               Dotenv(EnvFile(DotenvKey), NoFile), Dotenv(NoFile, EnvFile(DotenvKey))}]

\* Nothing, either source alone, and both
PlainEnvironments ==
    [environ : {None, EnvKey},
     dotenv : {SameDirectory(NoFile), SameDirectory(EnvFile(DotenvKey))}]

NoKeyEnvironment == [environ |-> None, dotenv |-> SameDirectory(NoFile)]

EnvKeyEnvironment == [environ |-> EnvKey, dotenv |-> SameDirectory(NoFile)]

Run(a, e) == [args |-> a, environ |-> e.environ, dotenv |-> e.dotenv]

\* The years given to --which, and a text that is no int
WhichArgs ==
    {JStr("abc"), JInt(-1), JInt(0), JInt(1788), JInt(1789), JInt(1933), JInt(2024),
     JInt(MaxYear), JInt(MaxYear + 1)}

\* The chambers given to --chamber
MainChamberArgs ==
    {Some(<<>>), Some(<<"s">>), Some(<<"H", "O", "U", "S", "E">>),
     Some(<<"X">>), Some(<<"s", "e", "n", "a", "t">>)}

\* The runs drawn: the year lookup, the chamber and the state arguments, the
\* year lookup with a chamber argument, the sources of the credential, and
\* the command lines with no mode or both, the two modes in either order
MainRuns ==
    { Run(MainArgs(Absent, w, None, None, None, None, FALSE), NoKeyEnvironment) :
        w \in WhichArgs }
      \cup { Run(MainArgs(c, JInt(0), None, None, None, None, FALSE), EnvKeyEnvironment) :
               c \in {Absent} }
      \cup { Run(MainArgs(JInt(CURRENT_CONGRESS), JInt(2023), None, None, None, None, FALSE),
                 e) : e \in {EnvKeyEnvironment} }
      \cup { Run(WhichFirst(MainArgs(c, w, None, None, None, None, FALSE)),
                 NoKeyEnvironment) :
               c \in {JInt(CURRENT_CONGRESS), JStr("x")}, w \in {JInt(2023), JInt(0), JStr("abc")} }
      \cup { Run(MainArgs(JStr("x"), w, None, None, None, None, FALSE), NoKeyEnvironment) :
               w \in {JInt(2023), JStr("abc")} }
      \cup { Run(MainArgs(JInt(CURRENT_CONGRESS), Absent, c, None, None, None, FALSE),
                 e) : c \in MainChamberArgs, e \in {NoKeyEnvironment} }
      \cup { Run(MainArgs(Absent, w, c, None, None, None, FALSE), NoKeyEnvironment) :
               w \in {JInt(0), JInt(1788), JInt(2023)},
               c \in {Some(<<"X">>), Some(<<"s">>)} }
      \cup { Run(MainArgs(JInt(CURRENT_CONGRESS), Absent, Some(<<"s">>), s, None, None, FALSE),
                 EnvKeyEnvironment) : s \in {Some(<<"n", "y">>), Some(<<"Z", "Z">>)} }
      \cup { Run(MainArgs(JInt(CURRENT_CONGRESS), Absent, None, None, None, None, FALSE), e) :
               e \in Environments }
      \cup { Run(MainArgs(JInt(CURRENT_CONGRESS), Absent, None, None, None, k, FALSE), e) :
               k \in {ArgKey, Some("")}, e \in PlainEnvironments }
      \cup { Run(MainArgs(Absent, Absent, None, None,
                          Some(OutputPath(FALSE, <<"out.csv">>)), ArgKey, FALSE),
                 NoKeyEnvironment) }

InitMain ==
    /\ op = "none"
    /\ arg = <<>>
    /\ result = <<>>
    /\ FetchIdle
    /\ IoIdle
    /\ main_pc = "start"
    /\ today_year = MaxYear - 1
    /\ api_key = None
    /\ resolved = FALSE
    /\ exit_status = None
    /\ \E run \in MainRuns :
           /\ args = run.args
           /\ environ = run.environ
           /\ dotenv = run.dotenv

\* The chambers given to normalize_chamber when it is called on its own
NormalizeChamberInputs ==
    {None, Some(<<>>),
     Some(<<"H", "o", "u", "s", "e">>), Some(<<"h", "o", "u", "s", "e">>),
     Some(<<"H">>), Some(<<"h">>),
     Some(<<"S", "e", "n", "a", "t", "e">>), Some(<<"s", "e", "n", "a", "t", "e">>),
     Some(<<"S">>), Some(<<"s">>),
     Some(<<"I", "n", "v", "a", "l", "i", "d">>),
     Some(<<"h", "O", "u", "S", "e">>), Some(<<"S", "E", "N", "A", "T", "E">>),
     Some(<<"h", "o", "u", "s", "e", "s">>), Some(<<" ", "h">>)}

\* A call of normalize_chamber on its own, in place of the run of main
CallNormalizeChamber ==
    /\ op = "none"
    /\ main_pc = "start"
    /\ \E c \in NormalizeChamberInputs :
           /\ op' = "normalize_chamber"
           /\ arg' = c
           /\ result' = normalize_chamber(c)
    /\ UNCHANGED <<fetchVars, ioVars, mainVars>>

NextMain ==
    \/ (op = "none" /\ MainStart)
    \/ EnterGetCongressMembers
    \/ RequestPage
    \/ MainFinish
    \/ CallNormalizeChamber

SpecMain == InitMain /\ [][NextMain]_vars

-----------------------------------------------------------------------------
(* Properties of the calendar model, checked under SpecCalendar *)

DateLE(a, b) ==
    \/ a.year < b.year
    \/ a.year = b.year /\ a.month < b.month
    \/ a.year = b.year /\ a.month = b.month /\ a.day <= b.day

DateLT(a, b) == DateLE(a, b) /\ a # b

\* First day of session n: March 4 under the March rule, January 3 under the
\* January rule, in the session's start year
SessionStart(n) ==
    IF get_congress_transition_month(n, None)[2] = 3
    THEN date(get_congress_years(n)[1], 3, 4)
    ELSE date(get_congress_years(n)[1], 1, 3)

InSession(n, d) == DateLE(SessionStart(n), d) /\ DateLT(d, SessionStart(n + 1))

\* C1 (as claimed): every date within session n's range, from the session's
\* start cutoff up to the day before the next session's start cutoff, is
\* mapped to n by calculate_congress_number.
C1_DateInSessionGivesSession ==
    op = "calculate_congress_number" =>
        \A n \in 1..MaxCongress : InSession(n, arg) => result = n

\* C2 (as claimed): every date of an even year y >= 1790, January 1 and 2
\* included, is mapped to 1 + (y - 1 - 1789) div 2.
C2_EvenYearNeverAdjusted ==
    (op = "calculate_congress_number" /\ arg.year % 2 = 0 /\ arg.year >= 1790) =>
        result = 1 + ((arg.year - 1 - 1789) \div 2)

\* C3: in every odd year y >= 1791, January 2 is mapped to (y-1789)/2 and
\* January 3 to (y-1789)/2 + 1; 2023-01-02 gives 117 and 2023-01-03 gives 118.
C3_OddYearJanuaryBoundary ==
    (op = "calculate_congress_number" /\ arg.year % 2 = 1 /\ arg.year >= 1791
        /\ arg.month = 1) =>
        /\ arg.day = 2 => result = (arg.year - 1789) \div 2
        /\ arg.day = 3 => result = ((arg.year - 1789) \div 2) + 1
        /\ arg = date(2023, 1, 2) => result = 117
        /\ arg = date(2023, 1, 3) => result = 118

C3_Witness ==
    /\ op = "calculate_congress_number"
    /\ arg = date(2023, 1, 3)
    /\ result = 118

\* C4: get_congress_years(n) is (1789 + 2(n-1), 1789 + 2(n-1) + 2); the start
\* year increases strictly with n and the end year of n is the start year of
\* n + 1.
C4_CongressYearsContiguous ==
    op = "get_congress_years" =>
        /\ result = <<1789 + (2 * (arg - 1)), 1789 + (2 * (arg - 1)) + 2>>
        /\ result[1] < get_congress_years(arg + 1)[1]
        /\ result[2] = get_congress_years(arg + 1)[1]
        /\ arg = 1 => result = <<1789, 1791>>

C4_Witness ==
    /\ op = "get_congress_years"
    /\ arg = 118
    /\ result = <<2023, 2025>>

\* C5: with no year or with year 1933, get_congress_transition_month gives
\* ("March", 3) for every session below 73 and ("January", 1) from 73 on.
C5_TransitionMonthBySession ==
    (op = "get_congress_transition_month" /\ arg[2] \in {None, Some(1933)}) =>
        result = IF arg[1] < 73 THEN <<"March", 3>> ELSE <<"January", 1>>

C5_Witness ==
    /\ op = "get_congress_transition_month"
    /\ arg = <<73, Some(1933)>>
    /\ result = <<"January", 1>>

\* The ordinal of n as the specification words it: "th" when the last two
\* digits are in 10..20, otherwise by the last digit
OrdinalSuffix(n) ==
    IF (n % 100) \in 10..20 THEN "th"
    ELSE IF n % 10 = 1 THEN "st"
    ELSE IF n % 10 = 2 THEN "nd"
    ELSE IF n % 10 = 3 THEN "rd"
    ELSE "th"

Ordinal(n) == Str(n) \o OrdinalSuffix(n)

\* C6: for an odd year y the label names the sessions p and p + 1 whose ranges
\* meet at y, as "<ord p> Congress (<start p>-<month p> y) & <ord p+1>
\* Congress (<month p+1> y-<end p+1>)".
C6_OddYearLabel ==
    (op = "format_congress_info" /\ arg % 2 = 1) =>
        LET p == (arg - 1789) \div 2
        IN  /\ get_congress_years(p)[2] = arg
            /\ get_congress_years(p + 1)[1] = arg
            /\ result =
                 Ordinal(p) \o " Congress (" \o Str(get_congress_years(p)[1])
                   \o "-" \o get_congress_transition_month(p, Some(arg))[1]
                   \o " " \o Str(arg) \o ") & " \o Ordinal(p + 1)
                   \o " Congress ("
                   \o get_congress_transition_month(p + 1, Some(arg))[1]
                   \o " " \o Str(arg) \o "-"
                   \o Str(get_congress_years(p + 1)[2]) \o ")"
            /\ arg = 1801 =>
                 result = "6th Congress (1799-March 1801) & 7th Congress (March 1801-1803)"
            /\ arg = 1933 =>
                 result = "72nd Congress (1931-March 1933) & 73rd Congress (January 1933-1935)"
            /\ arg = 2023 =>
                 result = "117th Congress (2021-January 2023) & 118th Congress (January 2023-2025)"

C6_Witness ==
    /\ op = "format_congress_info"
    /\ arg = 1933
    /\ result = "72nd Congress (1931-March 1933) & 73rd Congress (January 1933-1935)"

\* C7: for an even year y >= 1790 the label names the one session covering y,
\* s = 1 + (y - 1 - 1789) div 2, as "<ord s> Congress (<y-1>-<y+1>)".
C7_EvenYearLabel ==
    (op = "format_congress_info" /\ arg % 2 = 0 /\ arg >= 1790) =>
        LET s == 1 + ((arg - 1 - 1789) \div 2)
        IN  /\ result = Ordinal(s) \o " Congress (" \o Str(arg - 1) \o "-"
                          \o Str(arg + 1) \o ")"
            /\ arg = 1800 => result = "6th Congress (1799-1801)"
            /\ arg = 2014 => result = "113th Congress (2013-2015)"

C7_Witness ==
    /\ op = "format_congress_info"
    /\ arg = 2024
    /\ result = "118th Congress (2023-2025)"

\* C8: format_ordinal(n) is the decimal n followed by "th" when n mod 100 is
\* in 10..20, otherwise by "st", "nd", "rd" for a last digit 1, 2, 3 and by
\* "th" for any other last digit.
C8_OrdinalSuffixRule ==
    op = "format_ordinal" =>
        /\ result = Ordinal(arg)
        /\ arg = 1 => result = "1st"
        /\ arg = 2 => result = "2nd"
        /\ arg = 3 => result = "3rd"
        /\ arg = 4 => result = "4th"
        /\ arg = 11 => result = "11th"
        /\ arg = 12 => result = "12th"
        /\ arg = 13 => result = "13th"
        /\ arg = 21 => result = "21st"
        /\ arg = 101 => result = "101st"
        /\ arg = 111 => result = "111th"
        /\ arg = 112 => result = "112th"
        /\ arg = 113 => result = "113th"

C8_Witness ==
    /\ op = "format_ordinal"
    /\ arg = 111
    /\ result = "111th"

-----------------------------------------------------------------------------
(* Properties of the response normalizer, checked under SpecNormalizer *)

\* The chamber label as the normalizer is to render it
NormalizedLabel(term) ==
    IF Get(term.chamber, JStr("")) = JStr("House of Representatives")
    THEN JStr("House")
    ELSE Get(term.chamber, JStr(""))

\* C9 (as claimed): get_current_chamber returns the normalized chamber of the
\* last term when terms.item is a list, treats a single term object under
\* terms.item as a one-element list, and returns the empty string, without
\* raising, when the terms or the chamber are missing.
C9_CurrentChamberBothShapes ==
    (op = "get_current_chamber" /\ arg.terms.t \in {"absent", "dict"}
        /\ arg.terms.item.t # "null") =>
        LET item == arg.terms.item
        IN  IF item.t \in {"dict", "list"} /\ item.v # <<>>
            THEN result = Return(NormalizedLabel(item.v[Len(item.v)]))
            ELSE result = Return(JStr(""))

\* The part of C9 about a list under terms.item: the last element decides.
C9_ListShape ==
    (op = "get_current_chamber" /\ arg.terms.t \in {"absent", "dict"}
        /\ arg.terms.item.t \in {"absent", "list"}) =>
        LET item == arg.terms.item
        IN  IF item.v # <<>>
            THEN result = Return(NormalizedLabel(item.v[Len(item.v)]))
            ELSE result = Return(JStr(""))

-----------------------------------------------------------------------------
(* Properties of the fetch loop, checked under Spec *)

\* The records of the pages received, in request order
RECURSIVE Flatten(_)
Flatten(rs) == IF rs = <<>> THEN <<>> ELSE rs[1].members \o Flatten(Tail(rs))

\* The page carries a continuation marker: a 'next' that is neither missing,
\* nor null, nor empty
HasMarker(resp) ==
    /\ resp.pagination.t = "dict"
    /\ resp.pagination.next.t \notin {"absent", "null"}
    /\ resp.pagination.next # JStr("")

\* The page is one the loop goes on after: it arrived, holds records and
\* carries a continuation marker
GoesOn(resp) == resp.status = "ok" /\ resp.members # <<>> /\ HasMarker(resp)

\* C10: the requests carry the offsets 0, 250, 500, ... with page size 250,
\* one at a time; the loop stops at the first page that is empty or carries
\* no continuation marker, so the number of requests is the index of that
\* page; all_members is then the concatenation, in request order, of the
\* pages received.  Two full pages, the second without a marker, give 500
\* records after 2 requests; an empty second page leaves the first page's
\* records.
C10_FetchLoopPagination ==
    /\ Len(responses) = Len(requests)
    /\ \A i \in 1..Len(requests) :
           /\ requests[i].offset = 250 * (i - 1)
           /\ requests[i].limit = 250
    /\ \A i \in 1..Len(responses) :
           GoesOn(responses[i]) <=> (i < Len(responses) \/ pc = "loop")
    /\ pc \in {"idle", "start"} => requests = <<>>
    /\ all_members = Flatten(responses)
    /\ (/\ Len(responses) = 2
        /\ responses[1] = OkResponse(FullPage(0), Pagination(JStr("exists")))
        /\ responses[2] = OkResponse(FullPage(250), Pagination(Absent))) =>
           /\ pc # "loop"
           /\ Len(all_members) = 500
           /\ (chamber_arg = None /\ state_code = None) =>
                  (pc = "done" /\ Len(outcome.members) = 500)
    /\ (Len(responses) = 2 /\ responses[2].status = "ok" /\ responses[2].members = <<>>) =>
           /\ pc # "loop"
           /\ all_members = responses[1].members

C10_Witness ==
    /\ pc = "done"
    /\ Len(requests) = 2
    /\ requests[2].offset = 250
    /\ responses[2] = OkResponse(FullPage(250), Pagination(Absent))
    /\ Len(all_members) = 500
    /\ Len(outcome.members) = 500

\* The page holds records and its continuation marker is absent, null or
\* malformed: no pagination, a null pagination, no 'next', a null 'next', or
\* a nested object under 'next'
MarkerMissing(resp) ==
    /\ resp.status = "ok"
    /\ resp.members # <<>>
    /\ \/ resp.pagination.t # "dict"
       \/ resp.pagination.next.t \in {"absent", "null", "obj"}

\* C11 (as claimed): a non-empty page whose continuation marker is absent,
\* null or malformed is the last page: no request follows it, the loop raises
\* no error over it, and its records are kept.
C11_MalformedMarkerStops ==
    \A i \in 1..Len(responses) :
        MarkerMissing(responses[i]) =>
            /\ i = Len(responses)
            /\ pc # "loop"
            /\ outcome.exc # "AttributeError"
            /\ all_members = Flatten(responses)

\* The state code given by the caller is not in the state table, once
\* stripped and put in upper case; the empty and the blank code included
InvalidState(state) ==
    /\ state # None
    /\ join(upper(strip(CHOOSE c \in state : TRUE))) \notin DOMAIN STATE_NAMES

\* C12 (as claimed): a fetch with a state code that is not in the state table
\* makes no upstream request and ends by raising ValueError.
C12_InvalidStateNoRequest ==
    InvalidState(state_arg) =>
        /\ requests = <<>>
        /\ pc # "done"
        /\ pc = "raised" => outcome.exc = "ValueError"

\* The part of C12 that holds: entered by get_congress_members, the fetch
\* with an invalid state code raises ValueError at once, with no request.
C12_ThroughGetCongressMembers ==
    (entry = "get_congress_members" /\ InvalidState(state_arg)) =>
        /\ requests = <<>>
        /\ pc = "raised"
        /\ outcome.status = "raised"
        /\ outcome.exc = "ValueError"

\* The record passes the filters of the fetch: no state filter or the state
\* is the full name of the code, and no chamber filter or the current chamber
\* is the label asked for
PassesFilters(m) ==
    /\ \/ state_code \in {None, Some(<<>>)}
       \/ m.state = JStr(STATE_NAMES[join(upper(CHOOSE c \in state_code : TRUE))])
    /\ \/ chamber_arg \in {None, Some("")}
       \/ get_current_chamber(m) = Return(JStr(CHOOSE c \in chamber_arg : TRUE))

\* C13: the list a fetch returns is the sub-sequence, in fetch order and with
\* the records unmodified, of the accumulated records that pass the state
\* filter and the chamber filter.
C13_ReturnedIsFilteredSubsequence ==
    pc = "done" =>
        /\ all_members = Flatten(responses)
        /\ outcome.members = SelectSeq(all_members, PassesFilters)

C13_Witness ==
    /\ pc = "done"
    /\ chamber_arg = Some("Senate")
    /\ state_code = Some(NY)
    /\ all_members = <<FormerRepresentative, SenatorTextYears>>
    /\ outcome.members = <<SenatorTextYears>>

\* C14 (as claimed): every record get_congress_members returns carries a
\* 'chamber' field that is 'House' or 'Senate', and 'Senate' when the chamber
\* filter is "Senate".
C14_ReturnedRecordsCarryChamber ==
    (entry = "get_congress_members" /\ pc = "done") =>
        \A i \in 1..Len(outcome.members) :
            /\ outcome.members[i].chamber \in {JStr("House"), JStr("Senate")}
            /\ chamber_arg = Some("Senate") =>
                   outcome.members[i].chamber = JStr("Senate")

\* C15: a page request that fails is the last request; the fetch raises the
\* error of that request and returns neither records nor statistics, however
\* many pages it holds.
C15_RequestErrorAborts ==
    \A i \in 1..Len(responses) :
        responses[i].status = "error" =>
            /\ i = Len(responses)
            /\ Len(requests) = i
            /\ pc = "raised"
            /\ outcome.status = "raised"
            /\ outcome.exc = responses[i].exc
            /\ outcome.members = <<>>
            /\ outcome.stats = [total |-> 0, former |-> 0, redistricted |-> 0]

C15_Witness ==
    /\ pc = "raised"
    /\ Len(requests) = 2
    /\ responses[2] = ErrorResponse("Timeout", "Connection timed out")
    /\ all_members # <<>>
    /\ outcome.exc = "Timeout"
    /\ outcome.members = <<>>

-----------------------------------------------------------------------------
(* Properties of the export, checked under SpecExport *)

\* C16 (as claimed): for every record list, write_to_csv with an absolute
\* output path raises, and no file or directory is created or modified.
C16_AbsolutePathRejected ==
    (op = "write_to_csv" /\ arg.output_file.absolute) =>
        /\ result.raised # ""
        /\ files = arg.files
        /\ dirs = arg.dirs

\* The part of C16 that holds: with records to write, the absolute path is
\* rejected with PermissionError, an OSError, before anything is written.
C16_NonEmptyList ==
    (op = "write_to_csv" /\ arg.output_file.absolute /\ arg.members # <<>>) =>
        /\ result = RaiseWith("PermissionError", "Cannot write to absolute path: "
                                                    \o path_str(arg.output_file))
        /\ files = arg.files
        /\ dirs = arg.dirs

\* C17 (as claimed): write_to_csv with an empty record list and a relative
\* filename leaves results/<filename> holding the header row.
C17_EmptyListWritesHeader ==
    (op = "write_to_csv" /\ arg.members = <<>> /\ ~arg.output_file.absolute
        /\ arg.fault.at = "none") =>
        [path |-> final_path(arg.output_file), rows |-> <<FIELDS>>] \in files

\* A failure the environment causes in open or in the CSV writer is met: the
\* list is not empty, the path is relative, the results directory is there
\* or can be made, and open has not failed before the writer is reached
FailsWhileWriting ==
    /\ op = "write_to_csv"
    /\ arg.members # <<>>
    /\ ~arg.output_file.absolute
    /\ ResultsFile \notin arg.files
    /\ arg.fault.at \in {"open", "writeheader", "writerows"}
    /\ (arg.fault.at = "open" \/ final_path(arg.output_file) \notin arg.dirs)

\* The IOError write_to_csv raises for a cause
WriteError(cause) ==
    RaiseWith("OSError", "Error writing to " \o final_path(arg.output_file) \o ": " \o cause)

\* C18 (as claimed): every failure while a non-empty list is written to a
\* relative path, in open or in the CSV writer, reaches the caller as an
\* IOError whose message names the target path and the underlying cause.
C18_WriteFailuresAreIOError ==
    FailsWhileWriting => result = WriteError(arg.fault.message)

\* The part of C18 that holds: a failure that is an OSError is raised anew as
\* IOError with the target path and the cause, the failure of open on a
\* directory included.
C18_OSErrorsWrapped ==
    /\ (FailsWhileWriting /\ is_os_error(arg.fault.exc)) =>
           result = WriteError(arg.fault.message)
    /\ (op = "write_to_csv" /\ arg.members # <<>> /\ ~arg.output_file.absolute
           /\ ResultsFile \notin arg.files /\ arg.fault.at = "none"
           /\ final_path(arg.output_file) \in arg.dirs) =>
           result = WriteError("[Errno 21] Is a directory: '"
                                 \o final_path(arg.output_file) \o "'")

-----------------------------------------------------------------------------
(* Properties of main, checked under SpecMain *)

\* No explicit key was given on the command line
NoExplicitKey == args.api_key \in {None, Some("")}

\* The .env file of the working directory defines a key
DotenvDefinesKey == dotenv.cwd.exists /\ dotenv.cwd.key \notin {None, Some("")}

\* C19 (as claimed): the credential is the explicit key when one is given;
\* without it, the key of the .env file when both the file and the
\* environment variable define one; with none of the three, get_api_key
\* returns no key and main exits with a nonzero status and no request.
C19_CredentialResolutionOrder ==
    resolved =>
        /\ ~NoExplicitKey => api_key = args.api_key
        /\ (NoExplicitKey /\ DotenvDefinesKey /\ environ \notin {None, Some("")}) =>
               api_key = dotenv.cwd.key
        /\ (NoExplicitKey /\ ~DotenvDefinesKey /\ environ = None) =>
               /\ api_key = None
               /\ main_pc = "exited"
               /\ exit_status \notin {None, Some(0)}
               /\ requests = <<>>

\* The part of C19 that holds: the explicit key comes first, and with no key
\* found main exits with status 1 before any request.
C19_ExplicitKeyAndNoKey ==
    resolved =>
        /\ ~NoExplicitKey => api_key = args.api_key
        /\ api_key \in {None, Some("")} =>
               /\ main_pc = "exited"
               /\ exit_status = Some(1)
               /\ requests = <<>>

\* What the code does with the two other sources when no explicit key is
\* given: the variable of the environment is the key whenever it is set, or
\* when the working directory holds no .env file; otherwise the key is the
\* one of the .env file found from the program's directory, if any.
C19_EnvironmentFirst ==
    [][(~resolved /\ resolved' /\ NoExplicitKey) =>
          api_key' = IF environ # None \/ ~dotenv.cwd.exists THEN environ
                     ELSE dotenv.script.key]_vars

\* main was started in the year lookup mode: --which with an int, alone
LookupMode == args.which.t = "int" /\ args.congress.t = "absent" /\ main_pc # "start"

\* The message for a year out of range
InvalidYearMessage(year) ==
    "Error: Invalid year " \o Str(year) \o ". Must be between 1789 and "
      \o Str(today_year + 1)

\* C20 (as claimed): in the lookup mode a year outside [1789, current year
\* + 1], 0 and negative years included, gives the invalid-year message on
\* the error stream and a nonzero exit status, with no credential resolved
\* and no request; a year inside the range gives the session label and a
\* normal exit.
C20_LookupYearRange ==
    LookupMode =>
        /\ main_pc = "exited"
        /\ ~resolved
        /\ requests = <<>>
        /\ IF 1789 <= args.which.n /\ args.which.n <= today_year + 1
           THEN /\ exit_status = Some(0)
                /\ stdout = <<"", "Congress in session during " \o Str(args.which.n) \o ":",
                              "  " \o format_congress_info(args.which.n)>>
                /\ stderr = <<>>
           ELSE /\ exit_status \notin {None, Some(0)}
                /\ stderr = <<InvalidYearMessage(args.which.n)>>

\* The part of C20 that holds: every year but 0.
C20_NonZeroYears ==
    (LookupMode /\ args.which.n # 0) =>
        /\ main_pc = "exited"
        /\ ~resolved
        /\ requests = <<>>
        /\ IF 1789 <= args.which.n /\ args.which.n <= today_year + 1
           THEN /\ exit_status = Some(0)
                /\ stdout[3] = "  " \o format_congress_info(args.which.n)
           ELSE /\ exit_status = Some(1)
                /\ stderr = <<InvalidYearMessage(args.which.n)>>

-----------------------------------------------------------------------------
(* Claims about the export step of main, the chamber argument, the          *)
(* statistics, the calendar functions and the termination of the fetch      *)

\* The file main is to write: the one of --output, or the generated name
MainOutput ==
    IF args.output = None
    THEN OutputPath(FALSE, <<generate_output_filename(congress_arg, chamber_arg, state_arg)>>)
    ELSE CHOOSE p \in args.output : TRUE

\* The fetch of this run of main returned at least one record
FetchedSome == pc = "done" /\ outcome.status = "returned" /\ outcome.members # <<>>

\* C21: in the fetch-and-export mode, once the fetch has returned at least
\* one record, main exports it: it leaves with status 0 and the file named by
\* --output, or by generate_output_filename, holds the header and one row per
\* record
C21_SuccessfulFetchIsExported ==
    (main_pc = "exited" /\ FetchedSome)
        => /\ exit_status = Some(0)
           /\ \E f \in files :
                  /\ f.path = final_path(MainOutput)
                  /\ Len(f.rows) = 1 + Len(outcome.members)

\* The letters of the two chamber names, in lower and in upper case
UpperLetter ==
    ("h" :> "H") @@ ("o" :> "O") @@ ("u" :> "U") @@ ("s" :> "S") @@ ("e" :> "E")
      @@ ("n" :> "N") @@ ("a" :> "A") @@ ("t" :> "T")

\* The text is the word, whatever the case of its letters
SameWord(chars, word) ==
    /\ Len(chars) = Len(word)
    /\ \A i \in 1..Len(word) : chars[i] \in {word[i], UpperLetter[word[i]]}

\* The chamber the text names: "House", "Senate" or none
NamedChamber(chamber) ==
    IF chamber = None THEN None
    ELSE LET chars == CHOOSE c \in chamber : TRUE
         IN  IF SameWord(chars, <<"h", "o", "u", "s", "e">>) \/ SameWord(chars, <<"h">>)
             THEN Some("House")
             ELSE IF SameWord(chars, <<"s", "e", "n", "a", "t", "e">>)
                     \/ SameWord(chars, <<"s">>)
             THEN Some("Senate")
             ELSE None

\* main was started on a command line the parser accepts, with a chamber
\* argument
ChamberGiven ==
    /\ main_pc # "start"
    /\ parse_error(args) = ""
    /\ args.chamber \notin {None, Some(<<>>)}

\* main took the year lookup: --which with a year other than 0 (line 556)
TookYearLookup == args.which.t = "int" /\ args.which.n # 0

\* C22 (as claimed): normalize_chamber gives "House" for house and h,
\* "Senate" for senate and s, whatever the case, and None for everything
\* else, None and the empty text included; main given a chamber that names
\* neither leaves with a nonzero status before it resolves the credential and
\* before any request.
C22_ChamberNormalization ==
    /\ op = "normalize_chamber" => result = NamedChamber(arg)
    /\ (ChamberGiven /\ NamedChamber(args.chamber) = None)
           => /\ main_pc = "exited"
              /\ exit_status \notin {None, Some(0)}
              /\ ~resolved
              /\ requests = <<>>

\* The part of C22 that holds: the mapping of normalize_chamber; where main
\* does not take the year lookup, a chamber that names neither makes it leave
\* with status 1 before the credential is resolved and before any request,
\* and one that names a chamber is passed on as the canonical label; in the
\* year lookup the chamber is not looked at, and nothing is resolved or
\* requested.
C22_OutsideYearLookup ==
    /\ op = "normalize_chamber" => result = NamedChamber(arg)
    /\ (ChamberGiven /\ ~TookYearLookup /\ NamedChamber(args.chamber) = None)
           => /\ main_pc = "exited"
              /\ exit_status = Some(1)
              /\ ~resolved
              /\ requests = <<>>
    /\ (ChamberGiven /\ ~TookYearLookup /\ NamedChamber(args.chamber) # None)
           => /\ resolved
              /\ pc # "idle" => chamber_arg = NamedChamber(args.chamber)
    /\ (ChamberGiven /\ TookYearLookup)
           => /\ main_pc = "exited"
              /\ exit_status = (IF 1789 <= args.which.n /\ args.which.n <= today_year + 1
                                THEN Some(0) ELSE Some(1))
              /\ ~resolved
              /\ requests = <<>>

\* The terms of a record as a list: none when the term data is absent, the
\* single term when it is one mapping, the list when it is a list
TermsOf(m) == IF m.terms.t \in {"absent", "null"} THEN <<>> ELSE m.terms.item.v

\* The terms of the record whose session number is the queried one
SessionTerms(m) ==
    LET of_session(t) == t.congress = JStr(Str(CHOOSE n \in congress_arg : TRUE))
    IN  SelectSeq(TermsOf(m), of_session)

\* The term did not run its two years
CutShort(t) ==
    ~(t.startYear.t = "int" /\ t.endYear.t = "int" /\ t.endYear.n = t.startYear.n + 2)

\* The record is flagged as no longer serving
NoLongerServing(m) ==
    IF congress_arg = Some(CURRENT_CONGRESS)
    THEN m.currentMember = JBool(FALSE)
    ELSE \E i \in 1..Len(SessionTerms(m)) : CutShort(SessionTerms(m)[i])

\* Every term of the record carries a start year and an end year
CarriesYears(m) ==
    \A i \in 1..Len(TermsOf(m)) :
        /\ TermsOf(m)[i].startYear.t \in {"int", "str"}
        /\ TermsOf(m)[i].endYear.t \in {"int", "str"}

\* The count of 'former' of a fetch that returned is the number of returned
\* records flagged as no longer serving, each counted once
FormerCounted ==
    pc = "done"
        => outcome.stats.former
             = Cardinality({ i \in 1..Len(outcome.members) :
                               NoLongerServing(outcome.members[i]) })

\* C23: 'former' is the number of filtered records flagged as no longer
\* serving (by the current-membership flag for the most recent session, by a
\* matching term with end year # start year + 2 for a past one), each record
\* counting at most once, and the computation never fails with a type error
\* when the terms of the records carry start and end years
C23_FormerCount ==
    /\ FormerCounted
    /\ (pc = "raised" /\ outcome.exc = "TypeError")
           => \E i \in 1..Len(all_members) : ~CarriesYears(all_members[i])

\* The part of C23 about the value of the count
C23_FormerCountWhenReturned == FormerCounted

\* The districts the terms of the queried session of the record name
SessionDistricts(m) ==
    { SessionTerms(m)[i].district : i \in 1..Len(SessionTerms(m)) } \ {Absent}

\* C24: 'redistricted' is the number of returned records whose terms of the
\* queried session name more than one district; terms of other sessions and
\* terms without a district add nothing, and a record counts once
C24_RedistrictedCount ==
    pc = "done"
        => outcome.stats.redistricted
             = Cardinality({ i \in 1..Len(outcome.members) :
                               Cardinality(SessionDistricts(outcome.members[i])) > 1 })

\* A fetch of the 117th Congress returned the representative whose two terms
\* of that session name districts 3 and 4, and counted it once
C24_Witness ==
    /\ pc = "done"
    /\ congress_arg = Some(CURRENT_CONGRESS - 1)
    /\ outcome.members = <<FormerRepresentative, BareMember>>
    /\ outcome.stats.redistricted = 1

\* The term data of the record is absent, a single mapping or a list
ThreeShapes(m) ==
    \/ m.terms.t = "absent"
    \/ m.terms.t = "list"
    \/ m.terms.t = "dict" /\ m.terms.item.t \in {"absent", "dict", "list"}

\* The statistics of a fetch that returned are those of the records with
\* their terms taken as a list, whatever the shape they came in
StatisticsOfNormalizedTerms ==
    pc = "done"
        => /\ outcome.stats.former
                = Cardinality({ i \in 1..Len(outcome.members) :
                                  NoLongerServing(outcome.members[i]) })
           /\ outcome.stats.redistricted
                = Cardinality({ i \in 1..Len(outcome.members) :
                                  Cardinality(SessionDistricts(outcome.members[i])) > 1 })

\* C25: the statistics pass takes absent term data as the empty list, a
\* single mapping as a one-element list and a list as it is, so the
\* statistics do not depend on the shape, and the pass never raises on a
\* record of one of the three shapes: a fetch with no chamber filter and no
\* debug sample does not end in a TypeError
C25_StatisticsOnEveryShape ==
    /\ StatisticsOfNormalizedTerms
    /\ (/\ pc = "raised"
        /\ chamber_arg = None
        /\ ~debug_arg
        /\ \A i \in 1..Len(all_members) : ThreeShapes(all_members[i]))
           => outcome.exc # "TypeError"

\* The part of C25 about the shapes: the statistics are those of the
\* normalized terms, and a TypeError of the pass comes from a term of the
\* queried past session whose start year is no number
C25_ShapesAlone ==
    /\ StatisticsOfNormalizedTerms
    /\ (pc = "raised" /\ chamber_arg = None /\ ~debug_arg /\ outcome.exc = "TypeError")
           => /\ congress_arg # Some(CURRENT_CONGRESS)
              /\ \E i \in 1..Len(all_members) :
                     \E j \in 1..Len(SessionTerms(all_members[i])) :
                         SessionTerms(all_members[i])[j].startYear.t \notin {"int", "absent"}

\* C29: in every successful return the total is the number of records
\* returned, and 'former' and 'redistricted' lie between 0 and the total
C29_StatisticsBounds ==
    (pc = "done" /\ outcome.status = "returned")
        => /\ outcome.stats.total = Len(outcome.members)
           /\ 0 <= outcome.stats.former
           /\ outcome.stats.former <= outcome.stats.total
           /\ 0 <= outcome.stats.redistricted
           /\ outcome.stats.redistricted <= outcome.stats.total

\* A fetch returned two records, one of them no longer serving
C29_Witness ==
    /\ pc = "done"
    /\ outcome.status = "returned"
    /\ Len(outcome.members) = 2
    /\ outcome.stats = [total |-> 2, former |-> 1, redistricted |-> 0]

\* The day after the date
NextDay(d) ==
    IF d.day < DaysInMonth(d.year, d.month) THEN date(d.year, d.month, d.day + 1)
    ELSE IF d.month < 12 THEN date(d.year, d.month + 1, 1)
    ELSE date(d.year + 1, 1, 1)

\* C26: from 1789-03-04 on, calculate_congress_number never decreases as the
\* date advances (the session of a date is at most the session of the day
\* after it, hence of every later date) and is at least 1
C26_SessionNeverDecreases ==
    (op = "calculate_congress_number" /\ DateLE(date(1789, 3, 4), arg))
        => /\ result >= 1
           /\ result <= calculate_congress_number(NextDay(arg))

\* The part of C26 that holds: outside the first two days of January the
\* session is at least 1 and does not decrease from one day to the next
C26_OutsideEarlyJanuary ==
    (/\ op = "calculate_congress_number"
     /\ DateLE(date(1789, 3, 4), arg)
     /\ ~(arg.month = 1 /\ arg.day <= 2)
     /\ ~(NextDay(arg).month = 1 /\ NextDay(arg).day <= 2))
        => /\ result >= 1
           /\ result <= calculate_congress_number(NextDay(arg))

\* First year of session n, for n >= 1
FirstYear(n) == 1789 + 2 * (n - 1)

\* The month in which session n takes over
TakeoverMonth(n) == IF n < 73 THEN "March" ELSE "January"

\* A label that names the single session n with its two-year range
OneSessionLabel(n) ==
    Ordinal(n) \o " Congress (" \o Str(FirstYear(n)) \o "-" \o Str(FirstYear(n) + 2) \o ")"

\* A label that names the sessions n and n + 1 meeting in the year y
TwoSessionLabel(n, y) ==
    Ordinal(n) \o " Congress (" \o Str(FirstYear(n)) \o "-" \o TakeoverMonth(n)
      \o " " \o Str(y) \o ") & " \o Ordinal(n + 1) \o " Congress ("
      \o TakeoverMonth(n + 1) \o " " \o Str(y) \o "-" \o Str(FirstYear(n + 1) + 2) \o ")"

\* The label names valid sessions only: one session n >= 1, or two sessions
\* n >= 1 and n + 1, so that every range starts in 1789 or later
NamesValidSessions(label, y) ==
    \E n \in 1..MaxCongress :
        label = OneSessionLabel(n) \/ label = TwoSessionLabel(n, y)

\* The label names the 1st Congress and no other session
NamesFirstOnly(label) ==
    label \in {"1st Congress (1789-1791)", "1st Congress (March 1789-1791)"}

\* C27: for every year from 1789 to the current year + 1 the label of
\* format_congress_info names sessions >= 1 only, with ranges that start in
\* 1789 or later, and the label of 1789 names the 1st Congress alone
C27_LabelNamesValidSessions ==
    (op = "format_congress_info" /\ 1789 <= arg /\ arg <= today_year + 1)
        => /\ NamesValidSessions(result, arg)
           /\ arg = 1789 => NamesFirstOnly(result)

\* The part of C27 that holds: the labels of the years after 1789
C27_After1789 ==
    (op = "format_congress_info" /\ 1789 < arg /\ arg <= today_year + 1)
        => NamesValidSessions(result, arg)

\* C30: the result of get_congress_transition_month depends on the session
\* alone: whatever the year argument (None, 1933 or another year) it is the
\* result of the call without a year, March for the sessions before the 73rd
\* and January from the 73rd on
C30_TransitionMonthIgnoresYear ==
    op = "get_congress_transition_month"
        => /\ result = get_congress_transition_month(arg[1], None)
           /\ result[1] = TakeoverMonth(arg[1])

\* The call for the 72nd Congress and the year 1933 took the first hard-coded
\* branch and gave March, as the call without a year does
C30_Witness ==
    /\ op = "get_congress_transition_month"
    /\ arg = <<72, Some(1933)>>
    /\ result = <<"March", 3>>

\* The page ends the loop: the request failed, the page is empty, or it
\* carries no truthy continuation marker
StopsLoop(resp) ==
    \/ resp.status = "error"
    \/ resp.members = <<>>
    \/ resp.pagination.t # "dict"
    \/ ~Truthy(resp.pagination.next)

\* The fetch is over: it returned or raised
FetchOver == pc \in {"done", "raised"}

\* The loop is left at the first page that ends it and at no other: the pages
\* before the last request all go on, and the fetch is over exactly when the
\* last page ends the loop (or when the state code was refused before the
\* first request)
ExitsAtFirstStop ==
    /\ Len(responses) = Len(requests)
    /\ \A i \in 1..Len(responses) :
           StopsLoop(responses[i]) <=> (i = Len(responses) /\ FetchOver)
    /\ (FetchOver /\ requests = <<>>)
           => (entry = "get_congress_members" /\ outcome.exc = "ValueError")

\* C28: the fetch loop terminates: when the upstream eventually serves a
\* page that is empty, lacks a truthy continuation marker or fails, the fetch
\* eventually returns or raises, the number of requests being the index of
\* that page, and the loop is left in no other way
C28_FetchLoopTerminates == []ExitsAtFirstStop /\ <>FetchOver

\* A fetch went on after two pages with a marker and returned at the third
\* request, whose page is empty
C28_Witness ==
    /\ pc = "done"
    /\ Len(requests) = 3
    /\ ~StopsLoop(responses[1])
    /\ ~StopsLoop(responses[2])
    /\ responses[3].status = "ok"
    /\ responses[3].members = <<>>

====
